---- MODULE Spec2Model ----
(***************************************************************************)
(* Waypoint generation and KMZ export of the WaypointMapping server.       *)
(*                                                                         *)
(* The server is a request/response program: the state below is the last   *)
(* call made on it (`call`) and what that call returned (`ret`).  Calls    *)
(* served at the same time are the frames of `frames`, one per call, and   *)
(* the objects they allocate or receive are in `objects`.                  *)
(*                                                                         *)
(* Number representation.                                                  *)
(*  - Latitudes and longitudes are integers in units of 1e-4 degree, so    *)
(*    London (51.5074, -0.1278) is (515074, -1278).                        *)
(*  - Speed and PhotoInterval are integers in tenths (Speed10 = 50 is      *)
(*    5.0 m/s).  Radius and Altitude are whole metres.                     *)
(*  - An angle is the exact fraction num/den of a degree, den being the    *)
(*    number of waypoints of the circle, so that i * (360.0 / count) is    *)
(*    the fraction (i * 360) / count.                                      *)
(***************************************************************************)
EXTENDS Integers, Sequences, FiniteSets, TLC

VARIABLES call, ret, frames, objects, drawing, map

vars == <<call, ret, frames, objects, drawing, map>>

(***************************************************************************)
(* Bounds of the model                                                     *)
(***************************************************************************)
\* Longest shape list handed to the orchestrator in one call.
MaxShapes == 2

\* Longest waypoint list of an export request.
MaxMission == 2

\* Number of calls served at the same time.
MaxCalls == 2

(***************************************************************************)
(* Program constants                                                       *)
(***************************************************************************)
MinCirclePoints == 24
FullTurn == 360
QuarterTurn == 90
HalfTurn == 180
DefaultRadius == 100
LondonLat == 515074
LondonLng == 0 - 1278
\* pi as the fraction PiNum / PiDen; the integer casts below agree with the
\* double computation for every radius, speed and interval of the model.
PiNum == 355
PiDen == 113

\* The null reference of a C# string.
Null == "<null>"

NoAction == "noAction"
TakePhoto == "takePhoto"
StartRecord == "startRecord"
StopRecord == "stopRecord"

Rectangle == "rectangle"
Polygon == "polygon"
Circle == "circle"
Polyline == "polyline"

(***************************************************************************)
(* Helpers                                                                 *)
(***************************************************************************)
Abs(x) == IF x < 0 THEN 0 - x ELSE x

Max(a, b) == IF a > b THEN a ELSE b

\* string.ToLower() on the strings of the model.
ToLower(s) ==
    CASE s = "Circle" -> "circle"
      [] s = "CIRCLE" -> "circle"
      [] s = "Polyline" -> "polyline"
      [] s = "Rectangle" -> "rectangle"
      [] s = "Polygon" -> "polygon"
      [] s = "Hexagon" -> "hexagon"
      [] s = "noAction" -> "noaction"
      [] s = "takePhoto" -> "takephoto"
      [] s = "TAKEPHOTO" -> "takephoto"
      [] s = "startRecord" -> "startrecord"
      [] s = "stopRecord" -> "stoprecord"
      [] s = "Hover" -> "hover"
      [] OTHER -> s

\* shapeType?.ToLower(): null stays null.
NullableToLower(s) == IF s = Null THEN Null ELSE ToLower(s)

Ok(wps) == [error |-> "none", waypoints |-> wps]

Throw(e) == [error |-> e, waypoints |-> <<>>]

\* A point given directly by a coordinate (no projection).
At(c) == [center |-> [Lat |-> c.Lat, Lng |-> c.Lng], num |-> 0, den |-> 1, dist |-> 0]

(***************************************************************************)
(* CircleShapeService                                                      *)
(***************************************************************************)
\* Mutant: the type is compared without lowering its case.
CircleShapeService_CanHandleShapeType_CaseSensitive(shapeType) ==
    shapeType = Circle

CircleShapeService_CanHandleShapeType(shapeType) ==
    NullableToLower(shapeType) = Circle

\* |x| < 1e-9 degree.  Coordinates are whole multiples of 1e-4 degree, of
\* which only 0 is below the threshold.
NearZero(x) == Abs(x) < 1

\* The center the waypoints are projected from.
CircleCenter(center) ==
    IF NearZero(center.Lat) /\ NearZero(center.Lng)
    THEN [Lat |-> LondonLat, Lng |-> LondonLng, Radius |-> center.Radius]
    ELSE center

\* Mutant: the count is the quotient alone, without the minimum of 24.
NumberOfWaypoints_NoMinimum(radiusMeters, parameters) ==
    (2 * PiNum * radiusMeters * 100)
        \div (PiDen * parameters.Speed10 * parameters.PhotoInterval10)

\* (int)(circumference / distancePerWaypoint), floored at 24.
\* distancePerWaypoint = Speed * PhotoInterval = Speed10 * PhotoInterval10 / 100.
NumberOfWaypoints(radiusMeters, parameters) ==
    Max(MinCirclePoints,
        (2 * PiNum * radiusMeters * 100)
            \div (PiDen * parameters.Speed10 * parameters.PhotoInterval10))

\* (angle + 90) % 360 with angle = i * (360.0 / n), as a fraction over n.
HeadingFromCenter(i, n) ==
    [num |-> (i * FullTurn + QuarterTurn * n) % (FullTurn * n), den |-> n]

\* (headingFromCenter + 180.0) % 360.0
HeadingToCenter(i, n) ==
    [num |-> (HeadingFromCenter(i, n).num + HalfTurn * n) % (FullTurn * n),
     den |-> n]

\* Mutant: the reversal toward the center is left out.
CircleHeading_Outward(i, n) == HeadingFromCenter(i, n)

\* waypoint.Heading of the i-th waypoint of a circle of n waypoints.
CircleHeading(i, n) == HeadingToCenter(i, n)

\* Mutant: the ids start at 0 instead of StartingIndex.
CircleId_FromZero(i, parameters) == i

\* The id given to the i-th waypoint: int id = StartingIndex; ... id++.
CircleId(i, parameters) == parameters.StartingIndex + i

\* The point at distance radiusMeters from the center along headingFromCenter.
CirclePoint(i, n, center, radiusMeters) ==
    [center |-> [Lat |-> center.Lat, Lng |-> center.Lng],
     num |-> HeadingFromCenter(i, n).num, den |-> n, dist |-> radiusMeters]

CircleWaypoint(i, n, center, radiusMeters, parameters) ==
    [Index |-> CircleId(i, parameters),
     Pos |-> CirclePoint(i, n, center, radiusMeters),
     Alt |-> parameters.Altitude,
     Speed10 |-> parameters.Speed10,
     Heading |-> CircleHeading(i, n),
     Action |-> parameters.Action]

\* Mutant: a radius that is not positive yields an empty list, no exception.
CircleShapeService_GenerateWaypoints_EmptyOnBadRadius(shape, parameters) ==
    IF Len(shape.Coordinates) < 1 \/ shape.Radius <= 0 THEN Ok(<<>>)
    ELSE LET center == CircleCenter(shape.Coordinates[1])
             n == NumberOfWaypoints(shape.Radius, parameters)
         IN  Ok([k \in 1..n |->
                    CircleWaypoint(k - 1, n, center, shape.Radius, parameters)])

\* Mutant: the radius check is radiusMeters < 0.
CircleShapeService_GenerateWaypoints_StrictRadius(shape, parameters) ==
    IF Len(shape.Coordinates) < 1 THEN Ok(<<>>)
    ELSE IF shape.Radius < 0 THEN Throw("ArgumentException")
    ELSE LET center == CircleCenter(shape.Coordinates[1])
             n == NumberOfWaypoints(shape.Radius, parameters)
         IN  Ok([k \in 1..n |->
                    CircleWaypoint(k - 1, n, center, shape.Radius, parameters)])

CircleShapeService_GenerateWaypoints(shape, parameters) ==
    IF Len(shape.Coordinates) < 1 THEN Ok(<<>>)
    ELSE IF shape.Radius <= 0 THEN Throw("ArgumentException")
    ELSE LET center == CircleCenter(shape.Coordinates[1])
             n == NumberOfWaypoints(shape.Radius, parameters)
         IN  Ok([k \in 1..n |->
                    CircleWaypoint(k - 1, n, center, shape.Radius, parameters)])

(***************************************************************************)
(* RectangleShapeService, PolygonShapeService, PolylineShapeService        *)
(* Handlers whose contract is the one of the design document, section 4.2. *)
(* Shapes handed to them have axis-aligned edges, so every bearing between *)
(* consecutive points is one of north, east, south, west.                  *)
(***************************************************************************)
\* Metres spanned by one coordinate unit (1e-4 degree of latitude).
MetresPerUnit == 11

RectangleShapeService_CanHandleShapeType(shapeType) ==
    NullableToLower(shapeType) = Rectangle

PolygonShapeService_CanHandleShapeType(shapeType) ==
    NullableToLower(shapeType) = Polygon

PolylineShapeService_CanHandleShapeType(shapeType) ==
    NullableToLower(shapeType) = Polyline

Reverse(s) == [j \in 1..Len(s) |-> s[Len(s) + 1 - j]]

RECURSIVE Flatten(_)
Flatten(ss) == IF ss = <<>> THEN <<>> ELSE Head(ss) \o Flatten(Tail(ss))

MinOf(S) == CHOOSE x \in S : \A y \in S : x <= y

MaxOf(S) == CHOOSE x \in S : \A y \in S : x >= y

\* Bearing in degrees from point a to point b of an axis-aligned step.
Bearing(a, b) ==
    CASE b.Lat > a.Lat -> 0
      [] b.Lat < a.Lat -> HalfTurn
      [] b.Lng > a.Lng -> QuarterTurn
      [] b.Lng < a.Lng -> HalfTurn + QuarterTurn
      [] OTHER -> 0

\* Heading of the j-th of the points: the bearing to the next point, the
\* last point repeating the heading before it, a lone point heading 0.
HeadingAt(points, j) ==
    IF Len(points) = 1 THEN 0
    ELSE IF j < Len(points) THEN Bearing(points[j], points[j + 1])
    ELSE Bearing(points[j - 1], points[j])

PathWaypoints(points, parameters) ==
    [j \in 1..Len(points) |->
        [Index |-> parameters.StartingIndex + j - 1,
         Pos |-> At(points[j]),
         Alt |-> parameters.Altitude,
         Speed10 |-> parameters.Speed10,
         Heading |-> [num |-> HeadingAt(points, j), den |-> 1],
         Action |-> parameters.Action]]

\* Positions along one scan line from lo to hi: its two endpoints, and
\* between them the photo points every `step` units unless endpointsOnly.
AlongLine(lo, hi, step, endpointsOnly) ==
    IF endpointsOnly THEN <<lo, hi>>
    ELSE LET m == (hi - lo - 1) \div step
         IN  [j \in 1..(m + 2) |-> IF j = m + 2 THEN hi ELSE lo + (j - 1) * step]

\* Mutant: every scan line is flown in the same direction.
ScanPoints_SameDirection(shape, parameters) ==
    LET lats == {shape.Coordinates[j].Lat : j \in 1..Len(shape.Coordinates)}
        lngs == {shape.Coordinates[j].Lng : j \in 1..Len(shape.Coordinates)}
        ns == parameters.IsNorthSouth
        loAcross == IF ns THEN MinOf(lngs) ELSE MinOf(lats)
        hiAcross == IF ns THEN MaxOf(lngs) ELSE MaxOf(lats)
        loAlong == IF ns THEN MinOf(lats) ELSE MinOf(lngs)
        hiAlong == IF ns THEN MaxOf(lats) ELSE MaxOf(lngs)
        spacing == Max(1, parameters.LineSpacing \div MetresPerUnit)
        photo == Max(1, (parameters.Speed10 * parameters.PhotoInterval10)
                            \div (100 * MetresPerUnit))
        lines == (hiAcross - loAcross) \div spacing + 1
        Point(across, along) ==
            IF ns THEN [Lat |-> along, Lng |-> across]
                  ELSE [Lat |-> across, Lng |-> along]
        Line(k) ==
            LET pos == AlongLine(loAlong, hiAlong, photo, parameters.UseEndpointsOnly)
            IN  [j \in 1..Len(pos) |-> Point(loAcross + k * spacing, pos[j])]
    IN  IF loAcross = hiAcross \/ loAlong = hiAlong THEN <<>>
        ELSE Flatten([k \in 1..lines |-> Line(k - 1)])

\* Boustrophedon scan of the extent of the shape.
ScanPoints(shape, parameters) ==
    LET lats == {shape.Coordinates[j].Lat : j \in 1..Len(shape.Coordinates)}
        lngs == {shape.Coordinates[j].Lng : j \in 1..Len(shape.Coordinates)}
        ns == parameters.IsNorthSouth
        \* across: the axis the lines are stacked along; along: the axis flown
        loAcross == IF ns THEN MinOf(lngs) ELSE MinOf(lats)
        hiAcross == IF ns THEN MaxOf(lngs) ELSE MaxOf(lats)
        loAlong == IF ns THEN MinOf(lats) ELSE MinOf(lngs)
        hiAlong == IF ns THEN MaxOf(lats) ELSE MaxOf(lngs)
        spacing == Max(1, parameters.LineSpacing \div MetresPerUnit)
        photo == Max(1, (parameters.Speed10 * parameters.PhotoInterval10)
                            \div (100 * MetresPerUnit))
        lines == (hiAcross - loAcross) \div spacing + 1
        Point(across, along) ==
            IF ns THEN [Lat |-> along, Lng |-> across]
                  ELSE [Lat |-> across, Lng |-> along]
        Line(k) ==
            LET pos == AlongLine(loAlong, hiAlong, photo, parameters.UseEndpointsOnly)
                pts == [j \in 1..Len(pos) |-> Point(loAcross + k * spacing, pos[j])]
            IN  IF k % 2 = 0 THEN pts ELSE Reverse(pts)
    IN  IF loAcross = hiAcross \/ loAlong = hiAlong THEN <<>>
        ELSE Flatten([k \in 1..lines |-> Line(k - 1)])

\* Mutant: a shape without area is rejected as an invalid shape.
ScanGenerate_RejectDegenerate(shape, parameters) ==
    IF Len(shape.Coordinates) < 1 THEN Throw("InvalidShapeError")
    ELSE IF ScanPoints(shape, parameters) = <<>> THEN Throw("InvalidShapeError")
    ELSE Ok(PathWaypoints(ScanPoints(shape, parameters), parameters))

ScanGenerate(shape, parameters) ==
    IF Len(shape.Coordinates) < 1 THEN Throw("InvalidShapeError")
    ELSE Ok(PathWaypoints(ScanPoints(shape, parameters), parameters))

RectangleShapeService_GenerateWaypoints(shape, parameters) ==
    ScanGenerate(shape, parameters)

PolygonShapeService_GenerateWaypoints(shape, parameters) ==
    ScanGenerate(shape, parameters)

\* Mutant: a polyline needs two points.
PolylineShapeService_GenerateWaypoints_TwoPointsNeeded(shape, parameters) ==
    IF Len(shape.Coordinates) < 2 THEN Throw("InvalidShapeError")
    ELSE Ok(PathWaypoints(shape.Coordinates, parameters))

\* Mutant: with UseEndpointsOnly only the two ends of the polyline are kept.
PolylineShapeService_GenerateWaypoints_EndsOnly(shape, parameters) ==
    IF Len(shape.Coordinates) < 1 THEN Throw("InvalidShapeError")
    ELSE IF parameters.UseEndpointsOnly /\ Len(shape.Coordinates) > 2
    THEN Ok(PathWaypoints(<<shape.Coordinates[1],
                            shape.Coordinates[Len(shape.Coordinates)]>>,
                          parameters))
    ELSE Ok(PathWaypoints(shape.Coordinates, parameters))

PolylineShapeService_GenerateWaypoints(shape, parameters) ==
    IF Len(shape.Coordinates) < 1 THEN Throw("InvalidShapeError")
    ELSE Ok(PathWaypoints(shape.Coordinates, parameters))

(***************************************************************************)
(* WaypointService: the orchestrator                                       *)
(***************************************************************************)
\* The IShapeService registrations, in registration order.
ShapeServices ==
    <<"RectangleShapeService", "PolygonShapeService",
      "CircleShapeService", "PolylineShapeService">>

CanHandleShapeType(service, shapeType) ==
    CASE service = "RectangleShapeService" ->
            RectangleShapeService_CanHandleShapeType(shapeType)
      [] service = "PolygonShapeService" ->
            PolygonShapeService_CanHandleShapeType(shapeType)
      [] service = "CircleShapeService" ->
            CircleShapeService_CanHandleShapeType(shapeType)
      [] service = "PolylineShapeService" ->
            PolylineShapeService_CanHandleShapeType(shapeType)

ServiceGenerate(service, shape, parameters) ==
    CASE service = "RectangleShapeService" ->
            RectangleShapeService_GenerateWaypoints(shape, parameters)
      [] service = "PolygonShapeService" ->
            PolygonShapeService_GenerateWaypoints(shape, parameters)
      [] service = "CircleShapeService" ->
            CircleShapeService_GenerateWaypoints(shape, parameters)
      [] service = "PolylineShapeService" ->
            PolylineShapeService_GenerateWaypoints(shape, parameters)

\* Position in ShapeServices of the first service that can handle the type,
\* 0 when there is none.
FirstService(shapeType) ==
    LET able == {j \in 1..Len(ShapeServices) :
                    CanHandleShapeType(ShapeServices[j], shapeType)}
    IN  IF able = {} THEN 0 ELSE MinOf(able)

\* The result of handling one shape.
Dispatch(shape, parameters) ==
    IF FirstService(shape.Type) = 0 THEN Throw("UnsupportedShapeError")
    ELSE ServiceGenerate(ShapeServices[FirstService(shape.Type)], shape, parameters)

\* Index values startingIndex, startingIndex + 1, ... in list order.
Renumber(wps, startingIndex) ==
    [j \in 1..Len(wps) |-> [wps[j] EXCEPT !.Index = startingIndex + j - 1]]

\* Mutant: the waypoints of a shape are put before the ones gathered so far.
RECURSIVE Gather_Prepend(_, _, _)
Gather_Prepend(shapes, parameters, acc) ==
    IF shapes = <<>> THEN Ok(acc)
    ELSE LET r == Dispatch(Head(shapes), parameters)
         IN  IF r.error # "none" THEN Throw(r.error)
             ELSE Gather_Prepend(Tail(shapes), parameters, r.waypoints \o acc)

\* Shapes are handled in input order; the first error ends the call and
\* nothing gathered so far is returned.
RECURSIVE Gather(_, _, _)
Gather(shapes, parameters, acc) ==
    IF shapes = <<>> THEN Ok(acc)
    ELSE LET r == Dispatch(Head(shapes), parameters)
         IN  IF r.error # "none" THEN Throw(r.error)
             ELSE Gather(Tail(shapes), parameters, acc \o r.waypoints)

WaypointService_GenerateWaypointsAsync(shapes, parameters) ==
    LET r == Gather(shapes, parameters, <<>>)
    IN  IF r.error # "none" THEN r
        ELSE Ok(Renumber(r.waypoints, parameters.StartingIndex))

(***************************************************************************)
(* ShapeDataFactory                                                        *)
(***************************************************************************)
NoShape == [Id |-> "0", Type |-> Null, Coordinates |-> <<>>, Radius |-> 0]

Made(shape) == [error |-> "none", shape |-> shape]

NotMade(e) == [error |-> e, shape |-> NoShape]

CreateCircleShape(bounds, id) ==
    IF Len(bounds) = 0 THEN NotMade("ArgumentException")
    ELSE LET center == bounds[1]
             radius == IF center.Radius > 0 THEN center.Radius ELSE DefaultRadius
         IN  Made([Id |-> id, Type |-> Circle,
                   Coordinates |-> <<center>>, Radius |-> radius])

\* Mutant: the switch has no default arm that throws; an unknown type is
\* taken as a polygon.
CreateFromBoundsType_UnknownAsPolygon(boundsType, bounds) ==
    IF Len(bounds) = 0 THEN NotMade("ArgumentException")
    ELSE CASE NullableToLower(boundsType) = "rectangle" ->
                Made([Id |-> "1", Type |-> Rectangle,
                      Coordinates |-> bounds, Radius |-> 0])
           [] NullableToLower(boundsType) = "circle" ->
                CreateCircleShape(bounds, "1")
           [] NullableToLower(boundsType) = "polyline" ->
                Made([Id |-> "1", Type |-> Polyline,
                      Coordinates |-> bounds, Radius |-> 0])
           [] OTHER -> Made([Id |-> "1", Type |-> Polygon,
                             Coordinates |-> bounds, Radius |-> 0])

CreateFromBoundsType(boundsType, bounds) ==
    IF Len(bounds) = 0 THEN NotMade("ArgumentException")
    ELSE CASE NullableToLower(boundsType) = "rectangle" ->
                Made([Id |-> "1", Type |-> Rectangle,
                      Coordinates |-> bounds, Radius |-> 0])
           [] NullableToLower(boundsType) = "polygon" ->
                Made([Id |-> "1", Type |-> Polygon,
                      Coordinates |-> bounds, Radius |-> 0])
           [] NullableToLower(boundsType) = "circle" ->
                CreateCircleShape(bounds, "1")
           [] NullableToLower(boundsType) = "polyline" ->
                Made([Id |-> "1", Type |-> Polyline,
                      Coordinates |-> bounds, Radius |-> 0])
           [] OTHER -> NotMade("ArgumentException")

(***************************************************************************)
(* WaypointsController: POST api/waypoints/generate                        *)
(***************************************************************************)
\* a ?? b
Coalesce(a, b) == IF a # Null THEN a ELSE b

\* A response; serviceCalled tells whether the waypoint service was called
\* on the way to it.
Response(status, wps, error) ==
    [status |-> status, waypoints |-> wps, error |-> error,
     serviceCalled |-> FALSE]

\* The response of an action that went through line 89, the service call.
AfterServiceCall(response) == [response EXCEPT !.serviceCalled = TRUE]

\* The exception classes the catch clauses tell apart: an exception is named
\* by its class, and a catch clause takes the class and its subclasses.  The
\* name of the class also stands for the Message of the exception.
IsArgumentException(e) ==
    e \in {"ArgumentException", "ArgumentNullException",
           "ArgumentOutOfRangeException"}

IsInvalidOperationException(e) ==
    e \in {"InvalidOperationException", "ObjectDisposedException"}

\* Mutant: the last catch clause answers with the message of the exception.
ExceptionResponse_MessageLeaked(e) ==
    CASE IsArgumentException(e) -> Response(400, <<>>, e)
      [] IsInvalidOperationException(e) -> Response(422, <<>>, e)
      [] OTHER -> Response(500, <<>>, e)

\* The catch clauses of the action.
ExceptionResponse(e) ==
    CASE IsArgumentException(e) -> Response(400, <<>>, e)
      [] IsInvalidOperationException(e) -> Response(422, <<>>, e)
      [] OTHER -> Response(500, <<>>, "Internal server error")

\* Mutant: UseEndpointsOnly is not copied from the request.
RequestParameters_EndpointsOnlyDropped(request) ==
    [Altitude |-> request.Altitude,
     Speed10 |-> request.Speed10,
     LineSpacing |-> request.LineSpacing,
     StartingIndex |-> request.StartingIndex,
     Action |-> Coalesce(request.AllPointsAction,
                         Coalesce(request.Action, TakePhoto)),
     PhotoInterval10 |-> request.PhotoInterval10,
     UseEndpointsOnly |-> FALSE,
     IsNorthSouth |-> IF ToLower(request.BoundsType) = "polyline"
                      THEN FALSE ELSE request.IsNorthSouth]

\* new WaypointParameters { ... } built from the request.
RequestParameters(request) ==
    [Altitude |-> request.Altitude,
     Speed10 |-> request.Speed10,
     LineSpacing |-> request.LineSpacing,
     StartingIndex |-> request.StartingIndex,
     Action |-> Coalesce(request.AllPointsAction,
                         Coalesce(request.Action, TakePhoto)),
     PhotoInterval10 |-> request.PhotoInterval10,
     UseEndpointsOnly |-> request.UseEndpointsOnly,
     IsNorthSouth |-> IF ToLower(request.BoundsType) = "polyline"
                      THEN FALSE ELSE request.IsNorthSouth]

\* What a call of IWaypointService.GenerateWaypointsAsync comes to: a list,
\* null, or an exception.
Returned(wps) == [kind |-> "list", waypoints |-> wps, exception |-> "none"]
ReturnedNull == [kind |-> "null", waypoints |-> <<>>, exception |-> "none"]
Thrown(e) == [kind |-> "throw", waypoints |-> <<>>, exception |-> e]

\* The IWaypointService the controller was constructed with: the registered
\* WaypointService, or a substitute with a fixed outcome (the Mock of
\* WaypointControllerTests).
RegisteredService == [substitute |-> FALSE, outcome |-> ReturnedNull]
SubstituteService(outcome) == [substitute |-> TRUE, outcome |-> outcome]

\* await _waypointService.GenerateWaypointsAsync(shapes, parameters)
ServiceCall(service, shapes, parameters) ==
    IF service.substitute THEN service.outcome
    ELSE LET result == WaypointService_GenerateWaypointsAsync(shapes, parameters)
         IN  IF result.error # "none" THEN Thrown(result.error)
             ELSE Returned(result.waypoints)

\* Mutant: a result of one waypoint is taken for an empty one.
OkResult_SingleDropped(result) ==
    IF result.kind = "null" \/ Len(result.waypoints) <= 1
    THEN Response(200, <<>>, "none")
    ELSE Response(200, result.waypoints, "none")

\* Lines 91-100: Ok(result ?? new List<Waypoint>()) or Ok(result).
OkResult(result) ==
    IF result.kind = "null" \/ Len(result.waypoints) = 0
    THEN Response(200, IF result.kind = "null" THEN <<>> ELSE result.waypoints,
                  "none")
    ELSE Response(200, result.waypoints, "none")

\* The action, run by a controller that holds the given service.
GenerateWaypoints(service, request) ==
    IF request.BoundsType = Null
    THEN ExceptionResponse("NullReferenceException")
    ELSE LET parameters == RequestParameters(request)
             made == IF Len(request.Bounds) > 0
                     THEN CreateFromBoundsType(request.BoundsType, request.Bounds)
                     ELSE Made(NoShape)
             shapes == IF Len(request.Bounds) > 0 THEN <<made.shape>> ELSE <<>>
         IN  IF made.error # "none" THEN ExceptionResponse(made.error)
             ELSE LET result == ServiceCall(service, shapes, parameters)
                  IN  AfterServiceCall(
                          IF result.kind = "throw"
                          THEN ExceptionResponse(result.exception)
                          ELSE OkResult(result))

WaypointsController_GenerateWaypoints(request) ==
    GenerateWaypoints(RegisteredService, request)

\* The data annotations of GeneratePointsRequestDTO on the fields of the
\* model: [Required] on BoundsType, [Required, MinLength(1)] on Bounds and
\* the [Range] of StartingIndex, Altitude, Speed, LineSpacing, PhotoInterval.
ModelStateIsValid(request) ==
    /\ request.BoundsType # Null /\ request.BoundsType # ""
    /\ Len(request.Bounds) >= 1
    /\ request.StartingIndex >= 0
    /\ request.Altitude >= 1 /\ request.Altitude <= 500
    /\ request.Speed10 >= 1 /\ request.Speed10 <= 250
    /\ request.LineSpacing >= 1 /\ request.LineSpacing <= 1000
    /\ request.PhotoInterval10 >= 1 /\ request.PhotoInterval10 <= 1000

\* [ApiController]: a request whose model state is invalid is answered with
\* 400 before the action runs.
ApiController_GenerateWaypoints(request) ==
    IF ~ModelStateIsValid(request)
    THEN Response(400, <<>>, "ValidationProblem")
    ELSE WaypointsController_GenerateWaypoints(request)

(***************************************************************************)
(* KMZService.  The source holds two revisions of it: one builds the WPML  *)
(* document as an element tree ("structured"), the other one from a text   *)
(* template ("templated").  A document is modelled by the elements the     *)
(* claims read: its Placemarks, each with its coordinates, wpml:index and  *)
(* the list of its wpml:actionGroup elements.                              *)
(***************************************************************************)
DefaultExecuteHeight == 40
DefaultWaypointSpeed10 == 25

\* Latitudes and longitudes of the default waypoints, rounded to 1e-4 degree.
DefaultWaypoint(index, lng) ==
    [Index |-> index, Latitude |-> 604041, Longitude |-> lng,
     ExecuteHeight |-> DefaultExecuteHeight,
     WaypointSpeed10 |-> DefaultWaypointSpeed10, Action |-> TakePhoto]

GetDefaultWaypoints ==
    <<DefaultWaypoint(0, 262550), DefaultWaypoint(1, 262549),
      DefaultWaypoint(2, 262528)>>

\* request.Waypoints after SetDefaultValues.
SetDefaultValues(request) ==
    [request EXCEPT
        !.Waypoints = IF request.WaypointsNull \/ request.Waypoints = <<>>
                      THEN GetDefaultWaypoints ELSE request.Waypoints,
        !.WaypointsNull = FALSE]

GetActionActuatorFunc(action) ==
    CASE NullableToLower(action) = "takephoto" -> "takePhoto"
      [] NullableToLower(action) = "startrecord" -> "startRecord"
      [] NullableToLower(action) = "stoprecord" -> "stopRecord"
      [] NullableToLower(action) = "noaction" -> "none"
      [] OTHER -> "none"

ActionGroup(id, start, end, actions) ==
    [actionGroupId |-> id, actionGroupStartIndex |-> start,
     actionGroupEndIndex |-> end, actions |-> actions]

\* Structured revision: the actionActuatorFunc elements of the action.
CreateActionElement(actuatorFunc) ==
    CASE actuatorFunc = "takePhoto" -> <<"takePhoto">>
      [] actuatorFunc = "startRecord" -> <<"startRecord">>
      [] actuatorFunc = "stopRecord" -> <<"stopRecord">>
      [] OTHER -> <<>>

\* Structured revision: the action groups added to a Placemark (a null
\* element adds nothing).
CreateActionGroup(actuatorFunc, waypointIndex) ==
    IF actuatorFunc = "" \/ actuatorFunc = "none" THEN <<>>
    ELSE <<ActionGroup(waypointIndex, waypointIndex, waypointIndex,
                       CreateActionElement(actuatorFunc))>>

Placemark(waypoint, groups) ==
    [coordinates |-> <<waypoint.Longitude, waypoint.Latitude>>,
     index |-> waypoint.Index,
     executeHeight |-> waypoint.ExecuteHeight,
     waypointSpeed10 |-> waypoint.WaypointSpeed10,
     actionGroups |-> groups]

\* Structured revision.
CreatePlacemark(waypoint) ==
    Placemark(waypoint,
              CreateActionGroup(GetActionActuatorFunc(waypoint.Action),
                                waypoint.Index))

\* Templated revision: the actionActuatorFunc elements of {actionXml}.
GetActionXml(actionActuatorFunc) ==
    CASE actionActuatorFunc = "takePhoto" -> <<"gimbalRotate", "takePhoto">>
      [] actionActuatorFunc = "startRecord" -> <<"gimbalRotate", "startRecord">>
      [] actionActuatorFunc = "stopRecord" -> <<"stopRecord">>
      [] OTHER -> <<>>

\* Mutant: wpml:index is fixed in the template like the action group indexes.
TemplatePlacemark_FixedIndex(waypoint) ==
    [Placemark(waypoint,
               <<ActionGroup(1, 2, 2,
                             GetActionXml(GetActionActuatorFunc(waypoint.Action))),
                 ActionGroup(2, 2, 2, <<"gimbalEvenlyRotate">>)>>)
        EXCEPT !.index = 2]

\* Templated revision: the Placemark block appended for a waypoint.
TemplatePlacemark(waypoint) ==
    Placemark(waypoint,
              <<ActionGroup(1, 2, 2,
                            GetActionXml(GetActionActuatorFunc(waypoint.Action))),
                ActionGroup(2, 2, 2, <<"gimbalEvenlyRotate">>)>>)

GenerateWpmlAsync(revision, request) ==
    [placemarks |->
        [j \in 1..Len(request.Waypoints) |->
            IF revision = "structured"
            THEN CreatePlacemark(request.Waypoints[j])
            ELSE TemplatePlacemark(request.Waypoints[j])]]

\* The mission configuration block; it holds no Placemark.
GenerateKmlAsync(request) == [placemarks |-> <<>>]

\* Mutant: the WPML entry is created under a folder.
CreateKmzAsync_InFolder(kmlContent, wpmlContent) ==
    <<[name |-> "template.kml", content |-> kmlContent],
      [name |-> "wpmz/waylines.wpml", content |-> wpmlContent]>>

\* The entries of the zip archive, in creation order.
CreateKmzAsync(kmlContent, wpmlContent) ==
    <<[name |-> "template.kml", content |-> kmlContent],
      [name |-> "waylines.wpml", content |-> wpmlContent]>>

GenerateKmzAsync(revision, request) ==
    LET r == SetDefaultValues(request)
    IN  CreateKmzAsync(GenerateKmlAsync(r), GenerateWpmlAsync(revision, r))

\* KMZController: POST api/kmz/generate.
KMZController_GenerateKmlAndWpml(revision, request) ==
    IF request.IsNull THEN [status |-> 400, archive |-> <<>>]
    ELSE [status |-> 200, archive |-> GenerateKmzAsync(revision, request)]

(***************************************************************************)
(* Inputs                                                                  *)
(***************************************************************************)
SeqsUpTo(S, n) == UNION {[1..k -> S] : k \in 0..n}

Coord(lat, lng, radius) == [Lat |-> lat, Lng |-> lng, Radius |-> radius]

\* A place away from (0,0), (0,0) itself, and a place on the equator.
Centers == {<<601699, 249384>>, <<0, 0>>, <<0, 1000>>}

Radii == {0 - 5, 0, 50, 100}

Shape(type, coordinates, radius) ==
    [Id |-> "1", Type |-> type, Coordinates |-> coordinates, Radius |-> radius]

\* Circle shapes handed to the circle handler: with and without a center.
CircleShapes ==
    {Shape(Circle, <<Coord(c[1], c[2], r)>>, r) : c \in Centers, r \in Radii}
        \cup {Shape(Circle, <<>>, r) : r \in Radii}

RectangleBounds ==
    <<Coord(600000, 240000, 0), Coord(600000, 240006, 0),
      Coord(600004, 240006, 0), Coord(600004, 240000, 0)>>

LineBounds ==
    <<Coord(600000, 240000, 0), Coord(600000, 240005, 0),
      Coord(600003, 240005, 0)>>

PointBounds == <<Coord(600000, 240000, 0)>>

\* Four corners on one parallel: a ring without area.
FlatBounds ==
    <<Coord(600000, 240000, 0), Coord(600000, 240006, 0),
      Coord(600000, 240006, 0), Coord(600000, 240000, 0)>>

\* Shapes handed to the orchestrator.
Shapes ==
    {Shape(Circle, <<Coord(601699, 249384, 50)>>, 50),
     Shape("Circle", <<Coord(601699, 249384, 100)>>, 100),
     Shape(Circle, <<Coord(0, 0, 50)>>, 50),
     Shape(Circle, <<Coord(601699, 249384, 0)>>, 0),
     Shape(Rectangle, RectangleBounds, 0),
     Shape(Polygon, RectangleBounds, 0),
     Shape(Rectangle, FlatBounds, 0),
     Shape(Polygon, FlatBounds, 0),
     Shape(Polyline, LineBounds, 0),
     Shape(Polyline, PointBounds, 0),
     Shape("hexagon", RectangleBounds, 0)}

Parameters(startingIndex, photoInterval10, action, endpointsOnly, northSouth) ==
    [Altitude |-> 40, Speed10 |-> 50, LineSpacing |-> 22,
     StartingIndex |-> startingIndex, Action |-> action,
     PhotoInterval10 |-> photoInterval10,
     UseEndpointsOnly |-> endpointsOnly, IsNorthSouth |-> northSouth]

ParameterSets ==
    {Parameters(i, p, a, TRUE, FALSE) :
        i \in {0, 7}, p \in {20, 50}, a \in {TakePhoto, NoAction}}
      \cup {Parameters(1, 20, StartRecord, FALSE, ns) : ns \in BOOLEAN}

\* Parameters at the ends of the ranges the request accepts: Speed 0.1 to
\* 25, PhotoInterval 0.1 to 100.
RangeEnd(speed10, photoInterval10) ==
    [Parameters(0, photoInterval10, TakePhoto, TRUE, FALSE)
        EXCEPT !.Speed10 = speed10]

\* Circles of 1 m and 2 m, for the shortest distance between two photos.
SmallCircles == {Shape(Circle, <<Coord(601699, 249384, r)>>, r) : r \in {1, 2}}

\* The calls made on the circle handler, as <<shape, parameters>>.
CircleCalls ==
    (CircleShapes
        \X (ParameterSets
               \cup {RangeEnd(1, 1000), RangeEnd(250, 1), RangeEnd(250, 1000)}))
      \cup (SmallCircles \X {RangeEnd(1, 1)})

Requests ==
    [BoundsType : {Circle, "CIRCLE", Rectangle, Polygon, Polyline, "hexagon",
                   "", Null},
     Bounds : {<<>>, RectangleBounds, LineBounds, PointBounds, FlatBounds,
               <<Coord(601699, 249384, 50)>>, <<Coord(601699, 249384, 0)>>,
               <<Coord(0, 0, 50)>>},
     AllPointsAction : {Null, NoAction},
     Action : {Null, StopRecord},
     StartingIndex : {0, 7},
     Altitude : {40}, Speed10 : {50, 0}, LineSpacing : {22},
     PhotoInterval10 : {20}, UseEndpointsOnly : BOOLEAN, IsNorthSouth : BOOLEAN]

\* The requests handed to the action when it is invoked directly, as the
\* unit tests do; no model validation runs on them.
ActionRequests ==
    [BoundsType : {Circle, Rectangle, Polygon, Polyline, "hexagon", Null},
     Bounds : {<<>>, RectangleBounds, <<Coord(601699, 249384, 50)>>},
     AllPointsAction : {TakePhoto}, Action : {Null},
     StartingIndex : {1},
     Altitude : {100}, Speed10 : {100}, LineSpacing : {100},
     PhotoInterval10 : {30}, UseEndpointsOnly : {FALSE}, IsNorthSouth : {FALSE}]

\* A waypoint of the lists the substitute service returns.
ServiceWaypoint(index) ==
    [Index |-> index, Lat |-> 600000, Lng |-> 240000 + index, Alt |-> 100,
     Speed10 |-> 100, Action |-> TakePhoto]

\* The outcomes a substitute service is set up with.
SubstituteOutcomes ==
    {Returned(<<>>), Returned(<<ServiceWaypoint(1)>>),
     Returned(<<ServiceWaypoint(1), ServiceWaypoint(2)>>),
     Returned(<<ServiceWaypoint(2), ServiceWaypoint(1)>>),
     ReturnedNull}
    \cup {Thrown(e) : e \in {"ArgumentException", "ArgumentNullException",
                             "InvalidOperationException",
                             "ObjectDisposedException",
                             "NullReferenceException", "TimeoutException"}}

WaypointGens ==
    {[Index |-> w[1], Latitude |-> 600000 + w[1], Longitude |-> 240000,
      ExecuteHeight |-> 40, WaypointSpeed10 |-> 50, Action |-> w[2]] :
        w \in {<<0, TakePhoto>>, <<1, NoAction>>, <<5, StartRecord>>,
               <<3, StopRecord>>, <<2, "TAKEPHOTO">>, <<4, "Hover">>}}

Missions ==
    {[IsNull |-> FALSE, WaypointsNull |-> FALSE, Waypoints |-> ws] :
        ws \in SeqsUpTo(WaypointGens, MaxMission)}
      \cup {[IsNull |-> FALSE, WaypointsNull |-> TRUE, Waypoints |-> <<>>],
            [IsNull |-> TRUE, WaypointsNull |-> TRUE, Waypoints |-> <<>>]}

Revisions == {"structured", "templated"}

(***************************************************************************)
(* The client: drawing tools and probe-height mode (useDrawingTools,       *)
(* useProbeHeight, and their wiring in MapInner).  `drawing` holds the     *)
(* state of the two hooks, the shapes, bounds and boundsType of             *)
(* ShapeContext, and the last event handled with the number of events so   *)
(* far.  A value that may be null is a sequence of at most one element.    *)
(***************************************************************************)
\* The number of user events of one session of the drawing tools.
MaxEvents == 6

Point(lat, lng) == [lat |-> lat, lng |-> lng]

\* The places the user clicks on: two places near DEFAULT_CENTER, the first
\* north-west of the second.
NorthWest == Point(515565, 0 - 1110)

SouthEast == Point(515564, 0 - 1109)

ClickPoints == {NorthWest, SouthEast}

\* google.maps.geometry.spherical.computeDistanceBetween(a, b), kept as the
\* pair it is the distance of.
ComputeDistanceBetween(a, b) == <<a, b>>

\* radius.toFixed(2): the text of the number rounded to two decimals.
ToFixed(radius) == [fixed2 |-> radius]

\* A shape overlay on the map.
Overlay(type, points, radius) ==
    [type |-> type, points |-> points, radius |-> radius]

\* The bounds string: the listed coordinates and, for a circle, the radius.
BoundsOf(points, radius) == [points |-> points, radius |-> radius]

\* useState('') of bounds and useState(['rectangle']) of boundsType.
NoBounds == BoundsOf(<<>>, ToFixed(<<>>))
InitialBoundsType == "['rectangle']"

InitDrawing ==
    [activeDrawingMode |-> Null, drawingPoints |-> <<>>,
     rectangleStart |-> <<>>, circleCenter |-> <<>>,
     previewRectangle |-> FALSE,
     isProbeHeightActive |-> FALSE, probeMarkers |-> 0,
     shapes |-> <<>>, selectedShape |-> <<>>,
     bounds |-> NoBounds, boundsType |-> InitialBoundsType,
     lastCircleCenter |-> <<>>,
     event |-> "none", point |-> <<>>, events |-> 0]

stopDrawing(d) ==
    [d EXCEPT !.activeDrawingMode = Null, !.drawingPoints = <<>>,
              !.rectangleStart = <<>>, !.circleCenter = <<>>,
              !.previewRectangle = FALSE]

handleDrawRectangle(d) ==
    [d EXCEPT !.activeDrawingMode = Rectangle, !.drawingPoints = <<>>,
              !.rectangleStart = <<>>]

handleDrawCircle(d) ==
    [d EXCEPT !.activeDrawingMode = Circle, !.drawingPoints = <<>>,
              !.circleCenter = <<>>]

handleDrawPolyline(d) ==
    [d EXCEPT !.activeDrawingMode = Polyline, !.drawingPoints = <<>>]

\* setShapes(prev => [...prev, shape]); setSelectedShape(shape), with the
\* bounds and boundsType set just before.
AddShape(d, shape, bounds) ==
    [d EXCEPT !.bounds = bounds, !.boundsType = shape.type,
              !.shapes = Append(d.shapes, shape),
              !.selectedShape = <<shape>>]

\* Mutant: one clicked point is enough to complete a polyline.
handleStopDrawing_OnePointEnough(d) ==
    stopDrawing(
        IF d.activeDrawingMode = Polyline /\ Len(d.drawingPoints) >= 1
        THEN AddShape(d, Overlay(Polyline, d.drawingPoints, <<>>),
                      BoundsOf(d.drawingPoints, ToFixed(<<>>)))
        ELSE d)

handleStopDrawing(d) ==
    stopDrawing(
        IF d.activeDrawingMode = Polyline /\ Len(d.drawingPoints) >= 2
        THEN AddShape(d, Overlay(Polyline, d.drawingPoints, <<>>),
                      BoundsOf(d.drawingPoints, ToFixed(<<>>)))
        ELSE d)

\* The second click of a rectangle: the corners are ordered into south-west
\* and north-east, bounds lists NE, SE, SW, NW.
CompleteRectangle(d, clickPoint) ==
    LET start == d.rectangleStart[1]
        sw == Point(MinOf({start.lat, clickPoint.lat}),
                    MinOf({start.lng, clickPoint.lng}))
        ne == Point(MaxOf({start.lat, clickPoint.lat}),
                    MaxOf({start.lng, clickPoint.lng}))
        nw == Point(ne.lat, sw.lng)
        se == Point(sw.lat, ne.lng)
        added == AddShape(d, Overlay(Rectangle, <<sw, ne>>, <<>>),
                          BoundsOf(<<ne, se, sw, nw>>, ToFixed(<<>>)))
    IN  [added EXCEPT !.previewRectangle = FALSE, !.rectangleStart = <<>>,
                      !.activeDrawingMode = Null]

\* The second click of a circle.
CompleteCircle(d, clickPoint) ==
    LET center == d.circleCenter[1]
        radius == ComputeDistanceBetween(center, clickPoint)
        added == AddShape(d, Overlay(Circle, <<center>>, radius),
                          BoundsOf(<<center>>, ToFixed(radius)))
    IN  [added EXCEPT !.lastCircleCenter = <<[center |-> center,
                                              radius |-> radius]>>,
                      !.circleCenter = <<>>,
                      !.activeDrawingMode = Null]

\* useDrawingTools.handleMapClick; the map is loaded.
handleMapClick(d, clickPoint) ==
    CASE d.activeDrawingMode = Rectangle ->
             IF d.rectangleStart = <<>>
             THEN [d EXCEPT !.rectangleStart = <<clickPoint>>]
             ELSE CompleteRectangle(d, clickPoint)
      [] d.activeDrawingMode = Circle ->
             IF d.circleCenter = <<>>
             THEN [d EXCEPT !.circleCenter = <<clickPoint>>]
             ELSE CompleteCircle(d, clickPoint)
      [] d.activeDrawingMode = Polyline ->
             [d EXCEPT !.drawingPoints = Append(d.drawingPoints, clickPoint)]
      [] OTHER -> d

handleMouseMove(d) ==
    IF d.activeDrawingMode = Rectangle /\ d.rectangleStart # <<>>
    THEN [d EXCEPT !.previewRectangle = TRUE]
    ELSE d

\* useProbeHeight.handleProbeHeight; onDeactivateDrawing is stopDrawing.
handleProbeHeight(d) ==
    LET newState == ~d.isProbeHeightActive
    IN  [(IF newState THEN stopDrawing(d) ELSE d)
            EXCEPT !.isProbeHeightActive = newState]

handleClearProbeMarkers(d) == [d EXCEPT !.probeMarkers = 0]

\* useProbeHeight.handleProbeClick with the answer of the elevation service.
handleProbeClick(d, statusOk) ==
    IF ~d.isProbeHeightActive THEN d
    ELSE IF statusOk THEN [d EXCEPT !.probeMarkers = d.probeMarkers + 1]
    ELSE d

\* MapInner.handleMapClick: the combined click handler.
MapInner_handleMapClick(d, clickPoint, statusOk) ==
    IF d.isProbeHeightActive
    THEN handleProbeClick(d, statusOk)
    ELSE handleMapClick(d, clickPoint)

\* MapInner.handleKeyPress.
handleKeyPress(d, key) ==
    CASE /\ key = "Enter"
         /\ d.activeDrawingMode = Polyline
         /\ Len(d.drawingPoints) >= 2 -> handleStopDrawing(d)
      [] key = "Escape" /\ d.activeDrawingMode # Null -> stopDrawing(d)
      [] OTHER -> d

(***************************************************************************)
(* The client: waypoint markers and the flight path (useWaypointAPI,       *)
(* MapContext, MapInner.handleGenerateWaypoints).  `map` holds the flags   *)
(* and lines arrays of the map object, the starting index of MapInner, the *)
(* generate requests waiting for their response, the info window, the      *)
(* last export request, and the last event with the number of events.      *)
(***************************************************************************)
\* The number of user events and server responses of one session.
MaxMapEvents == 6

\* The number of generate requests that wait for their response.
MaxPending == 1

\* The waypoints of one server response.
MaxWaypoints == 2

\* Where waypoints lie and markers are dragged to.
Places == ClickPoints

\* A latitude outside [-90, 90] degrees.
OutOfRange == Point(910000, 0)

\* useState(1) of startingIndex.
InitialStartingIndex == 1

InitMap ==
    [flags |-> <<>>, lines |-> <<>>,
     startingIndex |-> InitialStartingIndex,
     pending |-> <<>>, infoWindow |-> <<>>, kmlRequest |-> <<>>,
     event |-> "none", outcome |-> "none", events |-> 0]

\* A marker: its id, the lat/lng fields stored on it, and its position on
\* the map.
Marker(id, place) == [id |-> id, latlng |-> place, position |-> place]

\* MapContext.redrawFlightPaths.
redrawFlightPaths(m) ==
    IF m.flags = <<>>
    THEN [m EXCEPT !.lines = <<>>]
    ELSE [m EXCEPT !.lines = <<[i \in 1..Len(m.flags) |-> m.flags[i].latlng]>>]

\* The array of markers the open info window captured is no longer the
\* flags array once flags is assigned a new array.
Detached(w) == [i \in 1..Len(w) |-> [w[i] EXCEPT !.current = FALSE]]

\* MapContext.clearWaypoints; clearAll does the same to the flags and lines
\* (the shapes, bounds and boundsType it resets are those of MapContext, not
\* the ones of ShapeContext the drawing tools write).
clearWaypoints(m) ==
    [m EXCEPT !.flags = <<>>, !.lines = <<>>,
              !.infoWindow = Detached(m.infoWindow)]

clearAll(m) == clearWaypoints(m)

\* The points of a response that pass the checks of the marker loop.
InRange(p) ==
    /\ p.place.lat >= 0 - 900000 /\ p.place.lat <= 900000
    /\ p.place.lng >= 0 - 1800000 /\ p.place.lng <= 1800000

\* Lines 369-786: the markers and the flight path of a non-empty response.
ShowWaypoints(m, generatedPoints) ==
    LET valid == SelectSeq(generatedPoints, InRange)
        flags == [i \in 1..Len(valid) |-> Marker(valid[i].Index, valid[i].place)]
        flightPoints == [i \in 1..Len(valid) |-> valid[i].place]
    IN  redrawFlightPaths(
            [m EXCEPT !.flags = flags, !.lines = <<flightPoints>>,
                      !.infoWindow = Detached(m.infoWindow)])

\* Mutant: the previous markers and paths are cleared before the response is
\* looked at.
generateWaypointsFromAPI_ClearedFirst(m, response) ==
    IF response.failed
    THEN [clearWaypoints(m) EXCEPT !.outcome = "serverError"]
    ELSE IF response.points = <<>>
    THEN [clearWaypoints(m) EXCEPT !.outcome = "empty"]
    ELSE [ShowWaypoints(m, response.points) EXCEPT
              !.outcome = "ok", !.startingIndex = m.startingIndex + 1]

\* generateWaypointsFromAPI from the response on, and what
\* handleGenerateWaypoints does with its result (lines 229-243).
generateWaypointsFromAPI(m, response) ==
    IF response.failed
    THEN [m EXCEPT !.outcome = "serverError"]
    ELSE IF response.points = <<>>
    THEN [m EXCEPT !.outcome = "empty"]
    ELSE [ShowWaypoints(m, response.points) EXCEPT
              !.outcome = "ok", !.startingIndex = m.startingIndex + 1]

\* Mutant: the export carries the id of the marker.
KmlWaypoint_MarkerId(wp, index) ==
    [Index |-> wp.id, Latitude |-> wp.latlng.lat, Longitude |-> wp.latlng.lng]

\* One element of requestData.Waypoints: flags.map((wp, index) => ...).
KmlWaypoint(wp, index) ==
    [Index |-> index, Latitude |-> wp.latlng.lat, Longitude |-> wp.latlng.lng]

\* generateKml: the Waypoints of the request it posts.
generateKml(m) ==
    IF m.flags = <<>> THEN [m EXCEPT !.kmlRequest = <<>>]
    ELSE [m EXCEPT !.kmlRequest =
                       [i \in 1..Len(m.flags) |-> KmlWaypoint(m.flags[i], i - 1)]]

\* The sequence without its k-th element: splice(k, 1).
Splice(s, k) == [i \in 1..(Len(s) - 1) |-> IF i < k THEN s[i] ELSE s[i + 1]]

\* findIndex(m => m.id === id), 0 when there is none.
FindIndex(flags, id) ==
    IF \E i \in 1..Len(flags) : flags[i].id = id
    THEN MinOf({i \in 1..Len(flags) : flags[i].id = id})
    ELSE 0

\* The click handler of the Delete button of the info window.
deleteWaypoint(m) ==
    LET w == m.infoWindow[1]
        k == FindIndex(m.flags, w.id)
    IN  redrawFlightPaths(
            [m EXCEPT !.flags = IF w.current /\ k > 0 THEN Splice(m.flags, k)
                                ELSE m.flags,
                      !.infoWindow = <<>>])

\* The dragend listener of a marker.
dragend(m, i) ==
    [m EXCEPT !.flags[i].latlng = m.flags[i].position,
              !.infoWindow = <<[id |-> m.flags[i].id, current |-> TRUE,
                                wired |-> FALSE]>>]

\* The events a drag ends with.  The order in which the Maps API delivers
\* mouseup and dragend to the listeners of a dragged marker, and whether it
\* delivers mouseup at all, is not fixed by the program.
DragOrders == {"dragend, mouseup", "mouseup, dragend", "dragend"}

dragMarker(m, i, place, order) ==
    LET moved == [m EXCEPT !.flags[i].position = place]
    IN  CASE order = "dragend, mouseup" -> redrawFlightPaths(dragend(moved, i))
          [] order = "mouseup, dragend" -> dragend(redrawFlightPaths(moved), i)
          [] OTHER -> dragend(moved, i)

\* A click on a marker: its mouseup listener, then its click listener.
clickMarker(m, i) ==
    [redrawFlightPaths(m) EXCEPT
         !.infoWindow = <<[id |-> m.flags[i].id, current |-> TRUE,
                           wired |-> TRUE]>>]

(***************************************************************************)
(* The calls.  The server keeps nothing between two calls: a call is made  *)
(* when no call is pending, and its result is handed back before the next. *)
(***************************************************************************)
Idle == call = [op |-> "none"]

\* The calls in flight.
Threads == 1..MaxCalls

IdleFrame == [pc |-> "idle", op |-> "none", overlap |-> FALSE]

\* A request that was not received.
NoRequest == [IsNull |-> TRUE, WaypointsNull |-> TRUE, Waypoints |-> <<>>]

\* The objects of one call: the waypoint list it allocates and the request
\* object it received.  Before the call and after it there is none.
NoObject == [items |-> <<>>, request |-> NoRequest]

\* No result yet.
NoResult == [error |-> "pending", waypoints |-> <<>>]

Init ==
    /\ call = [op |-> "none"]
    /\ ret = [error |-> "none", waypoints |-> <<>>]
    /\ frames = [t \in Threads |-> IdleFrame]
    /\ objects = [t \in Threads |-> NoObject]
    /\ drawing = InitDrawing
    /\ map = InitMap

\* A direct call of the circle handler.
CallCircleHandler ==
    /\ Idle
    /\ \E c \in CircleCalls :
           /\ call' = [op |-> "CircleShapeService.GenerateWaypoints",
                       shape |-> c[1], parameters |-> c[2]]
           /\ ret' = CircleShapeService_GenerateWaypoints(c[1], c[2])
           /\ UNCHANGED <<frames, objects, drawing, map>>

\* A call of the orchestrator with a list of shapes.
CallGenerateWaypoints ==
    /\ Idle
    /\ \E shapes \in SeqsUpTo(Shapes, MaxShapes), parameters \in ParameterSets :
           /\ call' = [op |-> "WaypointService.GenerateWaypointsAsync",
                       shapes |-> shapes, parameters |-> parameters]
           /\ ret' = WaypointService_GenerateWaypointsAsync(shapes, parameters)
           /\ UNCHANGED <<frames, objects, drawing, map>>

\* POST api/waypoints/generate.
PostGenerate ==
    /\ Idle
    /\ \E request \in Requests :
           /\ call' = [op |-> "WaypointsController.GenerateWaypoints",
                       request |-> request]
           /\ ret' = ApiController_GenerateWaypoints(request)
           /\ UNCHANGED <<frames, objects, drawing, map>>

\* The action invoked on a controller constructed with a substitute service.
InvokeAction ==
    /\ Idle
    /\ \E request \in ActionRequests, outcome \in SubstituteOutcomes :
           /\ call' = [op |-> "WaypointsController.GenerateWaypoints (substitute)",
                       request |-> request, outcome |-> outcome]
           /\ ret' = GenerateWaypoints(SubstituteService(outcome), request)
           /\ UNCHANGED <<frames, objects, drawing, map>>

\* POST api/kmz/generate, served by either revision of KMZService.
PostKmz ==
    /\ Idle
    /\ \E revision \in Revisions, request \in Missions :
           /\ call' = [op |-> "KMZController.GenerateKmlAndWpml",
                       revision |-> revision, request |-> request]
           /\ ret' = KMZController_GenerateKmlAndWpml(revision, request)
           /\ UNCHANGED <<frames, objects, drawing, map>>

\* The result is handed to the caller.
Return ==
    /\ ~Idle
    /\ call' = [op |-> "none"]
    /\ ret' = [error |-> "none", waypoints |-> <<>>]
    /\ UNCHANGED <<frames, objects, drawing, map>>

Next ==
    \/ CallCircleHandler
    \/ CallGenerateWaypoints
    \/ PostGenerate
    \/ InvokeAction
    \/ PostKmz
    \/ Return

Spec == Init /\ [][Next]_vars

(***************************************************************************)
(* Calls served at the same time.  A call is a frame that advances by the *)
(* steps of its code; steps of different calls interleave in any order.    *)
(***************************************************************************)
\* Mutant: the list and the request are fields shared by all calls.
OwnObject_Shared(t) == 1

\* The objects call t works on: the locals of its invocation (var waypoints
\* = new List<Waypoint>()) and the request deserialized for it.
OwnObject(t) == t

ConcurrentCircleCalls ==
    {<<Shape(Circle, <<Coord(601699, 249384, 50)>>, 50),
       Parameters(7, 20, TakePhoto, TRUE, FALSE)>>,
     <<Shape(Circle, <<Coord(601699, 249384, 0)>>, 0),
       Parameters(0, 20, TakePhoto, TRUE, FALSE)>>,
     <<Shape(Circle, <<>>, 50), Parameters(0, 20, TakePhoto, TRUE, FALSE)>>}

ConcurrentGenerateCalls ==
    {<<<<Shape(Polyline, LineBounds, 0),
         Shape(Circle, <<Coord(601699, 249384, 100)>>, 100)>>,
       Parameters(7, 50, NoAction, TRUE, FALSE)>>,
     <<<<Shape(Polyline, PointBounds, 0), Shape("hexagon", RectangleBounds, 0)>>,
       Parameters(0, 20, TakePhoto, TRUE, FALSE)>>}

ConcurrentMissions ==
    {[IsNull |-> FALSE, WaypointsNull |-> FALSE, Waypoints |-> <<>>],
     [IsNull |-> FALSE, WaypointsNull |-> FALSE,
      Waypoints |->
        <<[Index |-> 5, Latitude |-> 600005, Longitude |-> 240000,
           ExecuteHeight |-> 40, WaypointSpeed10 |-> 50, Action |-> StartRecord],
          [Index |-> 1, Latitude |-> 600001, Longitude |-> 240000,
           ExecuteHeight |-> 40, WaypointSpeed10 |-> 50, Action |-> NoAction]>>],
     NoRequest}

\* Another call is in flight.
Busy(t) == \E u \in Threads \ {t} : frames[u].pc # "idle"

\* Call t starts; every call in flight then overlaps with another one.
Started(t, op, input, pc, rest, result) ==
    frames' =
        [u \in Threads |->
            IF u = t
            THEN [pc |-> pc, op |-> op, overlap |-> Busy(t), input |-> input,
                  rest |-> rest, result |-> result]
            ELSE IF frames[u].pc # "idle"
                 THEN [frames[u] EXCEPT !.overlap = TRUE]
                 ELSE frames[u]]

\* CircleShapeService.GenerateWaypoints up to the allocation of its list.
CircleBegin(t) ==
    /\ frames[t].pc = "idle"
    /\ \E c \in ConcurrentCircleCalls :
           LET input == [shape |-> c[1], parameters |-> c[2]]
           IN  IF Len(c[1].Coordinates) < 1
               THEN /\ Started(t, "circle", input, "done", <<>>, Ok(<<>>))
                    /\ UNCHANGED objects
               ELSE IF c[1].Radius <= 0
               THEN /\ Started(t, "circle", input, "done", <<>>,
                               Throw("ArgumentException"))
                    /\ UNCHANGED objects
               ELSE /\ Started(t, "circle", input, "loop", <<>>, NoResult)
                    /\ objects' = [objects EXCEPT ![OwnObject(t)].items = <<>>]
    /\ UNCHANGED <<call, ret, drawing, map>>

\* The loop that adds the waypoints to the list.
CircleLoop(t) ==
    /\ frames[t].pc = "loop"
    /\ LET shape == frames[t].input.shape
           parameters == frames[t].input.parameters
           center == CircleCenter(shape.Coordinates[1])
           n == NumberOfWaypoints(shape.Radius, parameters)
       IN  objects' =
             [objects EXCEPT ![OwnObject(t)].items =
                 @ \o [k \in 1..n |->
                          CircleWaypoint(k - 1, n, center, shape.Radius, parameters)]]
    /\ frames' = [frames EXCEPT ![t].pc = "return"]
    /\ UNCHANGED <<call, ret, drawing, map>>

\* return waypoints
CircleReturn(t) ==
    /\ frames[t].pc = "return"
    /\ frames' = [frames EXCEPT ![t].pc = "done",
                                 ![t].result = Ok(objects[OwnObject(t)].items)]
    /\ UNCHANGED <<call, ret, objects, drawing, map>>

\* The orchestrator starts with an empty result list.
GenerateBegin(t) ==
    /\ frames[t].pc = "idle"
    /\ \E g \in ConcurrentGenerateCalls :
           Started(t, "generate", [shapes |-> g[1], parameters |-> g[2]],
                   "shapes", g[1], NoResult)
    /\ objects' = [objects EXCEPT ![OwnObject(t)].items = <<>>]
    /\ UNCHANGED <<call, ret, drawing, map>>

\* The orchestrator handles its next shape.
GenerateShape(t) ==
    /\ frames[t].pc = "shapes"
    /\ frames[t].rest # <<>>
    /\ LET r == Dispatch(Head(frames[t].rest), frames[t].input.parameters)
       IN  IF r.error # "none"
           THEN /\ frames' = [frames EXCEPT ![t].pc = "done",
                                            ![t].result = Throw(r.error)]
                /\ UNCHANGED objects
           ELSE /\ frames' = [frames EXCEPT ![t].rest = Tail(@)]
                /\ objects' = [objects EXCEPT ![OwnObject(t)].items =
                                  @ \o r.waypoints]
    /\ UNCHANGED <<call, ret, drawing, map>>

\* The orchestrator renumbers and returns its list.
GenerateEnd(t) ==
    /\ frames[t].pc = "shapes"
    /\ frames[t].rest = <<>>
    /\ frames' =
          [frames EXCEPT
              ![t].pc = "done",
              ![t].result = Ok(Renumber(objects[OwnObject(t)].items,
                                        frames[t].input.parameters.StartingIndex))]
    /\ UNCHANGED <<call, ret, objects, drawing, map>>

\* KMZController.GenerateKmlAndWpml receives its request object.
ExportBegin(t) ==
    /\ frames[t].pc = "idle"
    /\ \E revision \in Revisions, request \in ConcurrentMissions :
           LET input == [revision |-> revision, request |-> request]
           IN  IF request.IsNull
               THEN /\ Started(t, "export", input, "done", <<>>,
                               [status |-> 400, archive |-> <<>>])
                    /\ UNCHANGED objects
               ELSE /\ Started(t, "export", input, "defaults", <<>>, NoResult)
                    /\ objects' = [objects EXCEPT ![OwnObject(t)].request = request]
    /\ UNCHANGED <<call, ret, drawing, map>>

\* SetDefaultValues(request) writes into the request object.
ExportDefaults(t) ==
    /\ frames[t].pc = "defaults"
    /\ objects' = [objects EXCEPT ![OwnObject(t)].request = SetDefaultValues(@)]
    /\ frames' = [frames EXCEPT ![t].pc = "documents"]
    /\ UNCHANGED <<call, ret, drawing, map>>

\* The two documents are generated from the request object and zipped.
ExportDocuments(t) ==
    /\ frames[t].pc = "documents"
    /\ LET request == objects[OwnObject(t)].request
       IN  frames' =
             [frames EXCEPT
                 ![t].pc = "done",
                 ![t].result =
                     [status |-> 200,
                      archive |->
                        CreateKmzAsync(GenerateKmlAsync(request),
                                       GenerateWpmlAsync(frames[t].input.revision,
                                                         request))]]
    /\ UNCHANGED <<call, ret, objects, drawing, map>>

\* The result is handed back and the objects of the call are reclaimed.
Finish(t) ==
    /\ frames[t].pc = "done"
    /\ frames' = [frames EXCEPT ![t] = IdleFrame]
    /\ objects' = [objects EXCEPT ![OwnObject(t)] = NoObject]
    /\ UNCHANGED <<call, ret, drawing, map>>

ConcurrentNext ==
    \E t \in Threads :
        \/ CircleBegin(t)
        \/ CircleLoop(t)
        \/ CircleReturn(t)
        \/ GenerateBegin(t)
        \/ GenerateShape(t)
        \/ GenerateEnd(t)
        \/ ExportBegin(t)
        \/ ExportDefaults(t)
        \/ ExportDocuments(t)
        \/ Finish(t)

ConcurrentSpec == Init /\ [][ConcurrentNext]_vars

\* What the call of a frame returns when it is the only call.
Solo(frame) ==
    CASE frame.op = "circle" ->
            CircleShapeService_GenerateWaypoints(frame.input.shape,
                                                 frame.input.parameters)
      [] frame.op = "generate" ->
            WaypointService_GenerateWaypointsAsync(frame.input.shapes,
                                                   frame.input.parameters)
      [] frame.op = "export" ->
            KMZController_GenerateKmlAndWpml(frame.input.revision,
                                             frame.input.request)

(***************************************************************************)
(* Properties                                                              *)
(***************************************************************************)
IsCircleCall == call.op = "CircleShapeService.GenerateWaypoints"

IsOrchestratorCall == call.op = "WaypointService.GenerateWaypointsAsync"

IsGenerateRequest == call.op = "WaypointsController.GenerateWaypoints"

IsKmzRequest == call.op = "KMZController.GenerateKmlAndWpml"

Range(f) == {f[x] : x \in DOMAIN f}

\* The Index values are start, start + 1, ... in list order.
Contiguous(wps, start) == \A j \in 1..Len(wps) : wps[j].Index = start + j - 1

\* No registered handler accepts the type.
Unsupported(shapeType) ==
    NullableToLower(shapeType) \notin {Rectangle, Polygon, Circle, Polyline}

\* A circle that has a center and a radius that is not positive.
InvalidCircle(shape) ==
    /\ NullableToLower(shape.Type) = Circle
    /\ Len(shape.Coordinates) >= 1
    /\ shape.Radius <= 0

\* Handling the shape alone fails.
Fails(shape, parameters) == Dispatch(shape, parameters).error # "none"

\* The first shape of the list whose handling fails.
FirstFailing(shapes, parameters) ==
    shapes[MinOf({j \in 1..Len(shapes) : Fails(shapes[j], parameters)})]

\* The Placemarks of the waylines.wpml entry of an archive.
WpmlPlacemarks(archive) ==
    (CHOOSE e \in Range(archive) : e.name = "waylines.wpml").content.placemarks

\* C1: the Index values of the waypoints a successful generation returns
\* are StartingIndex, StartingIndex + 1, ... in output order, with no gap
\* and no repeat: for the orchestrator with any list of shapes, for the
\* endpoint, and for the circle handler called on its own.
C1_IndexContiguity ==
    /\ IsOrchestratorCall /\ ret.error = "none"
          => Contiguous(ret.waypoints, call.parameters.StartingIndex)
    /\ IsCircleCall /\ ret.error = "none"
          => Contiguous(ret.waypoints, call.parameters.StartingIndex)
    /\ IsGenerateRequest /\ ret.status = 200
          => Contiguous(ret.waypoints, call.request.StartingIndex)

\* C1 witness: a polyline and a circle generated in one call from index 7.
C1_Witness ==
    /\ IsOrchestratorCall
    /\ Len(call.shapes) = 2
    /\ call.shapes[1].Type = Polyline
    /\ call.shapes[2].Type = Circle
    /\ call.parameters.StartingIndex = 7
    /\ ret.error = "none"
    /\ Len(ret.waypoints) > MinCirclePoints

\* C2: when the handling of any shape of a call fails, the call returns the
\* error of the first failing shape and no waypoint at all, also when shapes
\* before it were handled; a circle with a radius that is not positive is
\* such a shape; an endpoint response that is not 200 carries no waypoint.
C2_AllOrNothing ==
    /\ IsOrchestratorCall
          /\ (\E j \in 1..Len(call.shapes) : Fails(call.shapes[j], call.parameters))
          => /\ ret.waypoints = <<>>
             /\ ret.error =
                  Dispatch(FirstFailing(call.shapes, call.parameters),
                           call.parameters).error
             /\ ret.error # "none"
    /\ IsOrchestratorCall
          /\ (\E j \in 1..Len(call.shapes) : InvalidCircle(call.shapes[j]))
          => ret.error # "none" /\ ret.waypoints = <<>>
    /\ IsGenerateRequest /\ ret.status # 200 => ret.waypoints = <<>>

\* C2 witness: a polyline handled, then a circle of radius 0 that fails.
C2_Witness ==
    /\ IsOrchestratorCall
    /\ Len(call.shapes) = 2
    /\ ~Fails(call.shapes[1], call.parameters)
    /\ Dispatch(call.shapes[1], call.parameters).waypoints # <<>>
    /\ InvalidCircle(call.shapes[2])
    /\ ret.error = "ArgumentException"
    /\ ret.waypoints = <<>>

\* C3 (as claimed): an export of a mission without waypoints fails and
\* returns no archive.
C3_EmptyMissionRejected ==
    IsKmzRequest /\ ~call.request.IsNull
        /\ (call.request.WaypointsNull \/ call.request.Waypoints = <<>>)
        => ret.status # 200 /\ ret.archive = <<>>

\* C4 (as claimed): every waypoint a circle generation returns is placed
\* around the center coordinate the handler was given.
C4_CenterKept ==
    IsCircleCall /\ ret.error = "none"
        => \A j \in 1..Len(ret.waypoints) :
              ret.waypoints[j].Pos.center =
                  [Lat |-> call.shape.Coordinates[1].Lat,
                   Lng |-> call.shape.Coordinates[1].Lng]

C7_ActionGroupPerAction ==
    IsKmzRequest /\ ret.status = 200 /\ call.request.Waypoints # <<>>
        => LET ws == call.request.Waypoints
               pm == WpmlPlacemarks(ret.archive)
           IN  \A j \in 1..Len(ws) :
                  /\ j <= Len(pm)
                  /\ ws[j].Action = NoAction => pm[j].actionGroups = <<>>
                  /\ ws[j].Action \in {TakePhoto, StartRecord, StopRecord}
                        => \E g \in 1..Len(pm[j].actionGroups) :
                              ws[j].Action \in Range(pm[j].actionGroups[g].actions)

\* C8: for a mission of N >= 1 waypoints, waylines.wpml holds exactly N
\* Placemarks, the j-th one carrying the index and the coordinates of the
\* j-th waypoint of the request.
C8_OnePlacemarkPerWaypoint ==
    IsKmzRequest /\ ret.status = 200 /\ Len(call.request.Waypoints) >= 1
        => LET ws == call.request.Waypoints
               pm == WpmlPlacemarks(ret.archive)
           IN  /\ Len(pm) = Len(ws)
               /\ \A j \in 1..Len(ws) :
                     /\ pm[j].index = ws[j].Index
                     /\ pm[j].coordinates = <<ws[j].Longitude, ws[j].Latitude>>

\* C8 witness: the templated revision exported waypoints 5 and 1 in that order.
C8_Witness ==
    /\ IsKmzRequest
    /\ call.revision = "templated"
    /\ ret.status = 200
    /\ Len(call.request.Waypoints) = 2
    /\ call.request.Waypoints[1].Index = 5
    /\ call.request.Waypoints[2].Index = 1
    /\ Len(WpmlPlacemarks(ret.archive)) = 2

\* C9: an archive returned by a successful export has exactly two entries,
\* one named template.kml and one named waylines.wpml.
C9_TwoNamedEntries ==
    IsKmzRequest /\ ret.status = 200
        => /\ Len(ret.archive) = 2
           /\ {ret.archive[j].name : j \in 1..Len(ret.archive)}
                 = {"template.kml", "waylines.wpml"}

\* C9 witness: the structured revision returned an archive for two waypoints.
C9_Witness ==
    /\ IsKmzRequest
    /\ call.revision = "structured"
    /\ Len(call.request.Waypoints) = 2
    /\ ret.status = 200
    /\ ret.archive # <<>>

QuotientIn(n, radius, parameters) ==
    LET c == 2 * PiNum * radius * 100
        d == PiDen * parameters.Speed10 * parameters.PhotoInterval10
    IN  n * d <= c /\ c < (n + 1) * d

\* C11: for a circle with a center and Radius > 0 the number of waypoints
\* returned is the greater of 24 and the whole part of
\* circumference / (Speed * PhotoInterval), circumference = 2 * pi * Radius;
\* it is never below 24, for every Speed in [0.1, 25] and PhotoInterval in
\* [0.1, 100]; the endpoint returns that many for a circle request.
C11_CircleWaypointCount ==
    /\ IsCircleCall /\ Len(call.shape.Coordinates) >= 1 /\ call.shape.Radius > 0
          => LET n == Len(ret.waypoints)
             IN  /\ ret.error = "none"
                 /\ n >= 24
                 /\ n > 24 => QuotientIn(n, call.shape.Radius, call.parameters)
                 /\ n = 24 => \E q \in 0..24 :
                                 QuotientIn(q, call.shape.Radius, call.parameters)
    /\ IsGenerateRequest /\ ret.status = 200
          /\ ToLower(call.request.BoundsType) = Circle
          => LET radius == IF call.request.Bounds[1].Radius > 0
                           THEN call.request.Bounds[1].Radius ELSE DefaultRadius
                 n == Len(ret.waypoints)
             IN  /\ n >= 24
                 /\ n > 24 => QuotientIn(n, radius, RequestParameters(call.request))

\* C11 witness: Speed 0.1 and PhotoInterval 0.1, the least the request
\* accepts, gave 1256 waypoints for a radius of 2 m.
C11_Witness ==
    /\ IsCircleCall
    /\ call.parameters.Speed10 = 1
    /\ call.parameters.PhotoInterval10 = 1
    /\ call.shape.Radius = 2
    /\ ret.error = "none"
    /\ Len(ret.waypoints) = 1256

RECURSIVE CountBefore(_, _, _)
CountBefore(shapes, parameters, k) ==
    IF k = 0 THEN 0
    ELSE CountBefore(shapes, parameters, k - 1)
            + Len(Dispatch(shapes[k], parameters).waypoints)

\* C14: the output of a successful call with several shapes is the lists of
\* the handlers one after the other in the order of the shapes: the
\* waypoints of shape k follow all waypoints of the shapes before it, in
\* the order, and with the position, heading and action, its handler gave.
C14_ConcatenationInOrder ==
    IsOrchestratorCall /\ ret.error = "none"
        => LET shapes == call.shapes
               parameters == call.parameters
           IN  /\ Len(ret.waypoints) = CountBefore(shapes, parameters, Len(shapes))
               /\ \A k \in 1..Len(shapes) :
                     LET own == Dispatch(shapes[k], parameters).waypoints
                         before == CountBefore(shapes, parameters, k - 1)
                     IN  \A j \in 1..Len(own) :
                            /\ ret.waypoints[before + j].Pos = own[j].Pos
                            /\ ret.waypoints[before + j].Heading = own[j].Heading
                            /\ ret.waypoints[before + j].Action = own[j].Action

\* C14 witness: a circle of 31 waypoints then a polyline of 3 points gave 34
\* waypoints, the last three on the polyline.
C14_Witness ==
    /\ IsOrchestratorCall
    /\ Len(call.shapes) = 2
    /\ call.shapes[1].Type = Circle
    /\ call.shapes[2] = Shape(Polyline, LineBounds, 0)
    /\ ret.error = "none"
    /\ Len(ret.waypoints) = 34
    /\ ret.waypoints[32].Pos = At(LineBounds[1])

IsPolyline(shapeType) == NullableToLower(shapeType) = Polyline

\* C15: a polyline of exactly one coordinate yields exactly one waypoint,
\* at that coordinate, with heading 0, and no error: from the orchestrator
\* and from the endpoint.
C15_SinglePointPolyline ==
    /\ IsOrchestratorCall /\ Len(call.shapes) = 1
          /\ IsPolyline(call.shapes[1].Type)
          /\ Len(call.shapes[1].Coordinates) = 1
          => /\ ret.error = "none"
             /\ Len(ret.waypoints) = 1
             /\ ret.waypoints[1].Pos = At(call.shapes[1].Coordinates[1])
             /\ ret.waypoints[1].Heading = [num |-> 0, den |-> 1]
    /\ IsGenerateRequest /\ ModelStateIsValid(call.request)
          /\ IsPolyline(call.request.BoundsType)
          /\ Len(call.request.Bounds) = 1
          => /\ ret.status = 200
             /\ Len(ret.waypoints) = 1
             /\ ret.waypoints[1].Pos = At(call.request.Bounds[1])
             /\ ret.waypoints[1].Heading = [num |-> 0, den |-> 1]

\* C15 witness: the endpoint answered a one-point polyline request.
C15_Witness ==
    /\ IsGenerateRequest
    /\ call.request.BoundsType = Polyline
    /\ call.request.Bounds = PointBounds
    /\ ret.status = 200
    /\ Len(ret.waypoints) = 1

\* C16: a polyline of n coordinates yields exactly n waypoints, the k-th
\* at the k-th coordinate, for every UseEndpointsOnly, PhotoInterval and
\* IsNorthSouth: in any successful orchestrator call and from the endpoint.
C16_PolylinePassThrough ==
    /\ IsOrchestratorCall /\ ret.error = "none"
          => \A k \in 1..Len(call.shapes) :
                IsPolyline(call.shapes[k].Type)
                  => LET coordinates == call.shapes[k].Coordinates
                         before == CountBefore(call.shapes, call.parameters, k - 1)
                         after == CountBefore(call.shapes, call.parameters, k)
                     IN  /\ after - before = Len(coordinates)
                         /\ \A j \in 1..Len(coordinates) :
                               ret.waypoints[before + j].Pos = At(coordinates[j])
    /\ IsGenerateRequest /\ ModelStateIsValid(call.request)
          /\ IsPolyline(call.request.BoundsType)
          /\ Len(call.request.Bounds) >= 1
          => /\ ret.status = 200
             /\ Len(ret.waypoints) = Len(call.request.Bounds)
             /\ \A j \in 1..Len(call.request.Bounds) :
                   ret.waypoints[j].Pos = At(call.request.Bounds[j])

\* C16 witness: a polyline of three points sent with UseEndpointsOnly and
\* IsNorthSouth set came back as three waypoints.
C16_Witness ==
    /\ IsGenerateRequest
    /\ call.request.BoundsType = Polyline
    /\ call.request.Bounds = LineBounds
    /\ call.request.UseEndpointsOnly
    /\ call.request.IsNorthSouth
    /\ ret.status = 200
    /\ Len(ret.waypoints) = 3

IsScanned(shapeType) == NullableToLower(shapeType) \in {Rectangle, Polygon}

\* The corners lie on one parallel or on one meridian.
ZeroArea(coordinates) ==
    \/ Cardinality({coordinates[j].Lat : j \in 1..Len(coordinates)}) = 1
    \/ Cardinality({coordinates[j].Lng : j \in 1..Len(coordinates)}) = 1

Across(wp, northSouth) ==
    IF northSouth THEN wp.Pos.center.Lng ELSE wp.Pos.center.Lat

Along(wp, northSouth) ==
    IF northSouth THEN wp.Pos.center.Lat ELSE wp.Pos.center.Lng

\* C18: in the output of the rectangle/polygon handler consecutive scan
\* lines are flown in opposite directions: where the output passes from one
\* scan line to the next, the first waypoint of the new line is on the side
\* of the shape where the last waypoint of the line before it is.
C18_Boustrophedon ==
    IsOrchestratorCall /\ Len(call.shapes) = 1 /\ IsScanned(call.shapes[1].Type)
        /\ ret.error = "none"
        => LET ns == call.parameters.IsNorthSouth
               w == ret.waypoints
           IN  \A j \in 1..(Len(w) - 1) :
                  Across(w[j], ns) # Across(w[j + 1], ns)
                      => Along(w[j], ns) = Along(w[j + 1], ns)

\* C18 witness: a rectangle scanned east-west in three lines of seven
\* waypoints; the second line starts at the east side.
C18_Witness ==
    /\ IsOrchestratorCall
    /\ call.shapes = <<Shape(Rectangle, RectangleBounds, 0)>>
    /\ ~call.parameters.IsNorthSouth
    /\ ~call.parameters.UseEndpointsOnly
    /\ ret.error = "none"
    /\ Len(ret.waypoints) = 21
    /\ ret.waypoints[7].Pos.center.Lng = 240006
    /\ ret.waypoints[8].Pos.center.Lng = 240006
    /\ ret.waypoints[8].Pos.center.Lat = 600002

\* The waypoints of w on the scan line of w[j].
OnLineOf(w, j, ns) == {i \in 1..Len(w) : Across(w[i], ns) = Across(w[j], ns)}

\* Every scan line of w has exactly two waypoints, at the two ends lo and hi.
TwoPerLine(w, ns, lo, hi) ==
    \A j \in 1..Len(w) :
        /\ Cardinality(OnLineOf(w, j, ns)) = 2
        /\ {Along(w[i], ns) : i \in OnLineOf(w, j, ns)} = {lo, hi}

\* C19: with UseEndpointsOnly = true the rectangle/polygon handler emits
\* exactly two waypoints per scan line, the two ends of the line, and no
\* photo point between them: from the orchestrator and from the endpoint.
C19_EndpointsOnly ==
    /\ IsOrchestratorCall /\ Len(call.shapes) = 1
          /\ IsScanned(call.shapes[1].Type)
          /\ call.parameters.UseEndpointsOnly /\ ret.error = "none"
          => LET ns == call.parameters.IsNorthSouth
                 c == call.shapes[1].Coordinates
                 along == {IF ns THEN c[j].Lat ELSE c[j].Lng : j \in 1..Len(c)}
             IN  TwoPerLine(ret.waypoints, ns, MinOf(along), MaxOf(along))
    /\ IsGenerateRequest /\ ModelStateIsValid(call.request)
          /\ IsScanned(call.request.BoundsType)
          /\ Len(call.request.Bounds) >= 1
          /\ call.request.UseEndpointsOnly /\ ret.status = 200
          => LET ns == call.request.IsNorthSouth
                 c == call.request.Bounds
                 along == {IF ns THEN c[j].Lat ELSE c[j].Lng : j \in 1..Len(c)}
             IN  TwoPerLine(ret.waypoints, ns, MinOf(along), MaxOf(along))

\* C19 witness: the endpoint answered a rectangle request with
\* UseEndpointsOnly by three scan lines of two waypoints.
C19_Witness ==
    /\ IsGenerateRequest
    /\ call.request.BoundsType = Rectangle
    /\ call.request.Bounds = RectangleBounds
    /\ call.request.UseEndpointsOnly
    /\ ~call.request.IsNorthSouth
    /\ ret.status = 200
    /\ Len(ret.waypoints) = 6

\* C20 (as claimed): every generate request whose BoundsType is none of
\* rectangle, polygon, circle, polyline in any letter case is answered with
\* 400 by the ArgumentException of ShapeDataFactory, and the waypoint
\* service is not called for it.
C20_UnknownTypeRejectedByFactory ==
    IsGenerateRequest /\ Unsupported(call.request.BoundsType)
        => /\ ret.status = 400
           /\ ret.error = "ArgumentException"
           /\ ~ret.serviceCalled

\* C20 (amended): every generate request whose BoundsType is none of the
\* four is answered with 400 and the waypoint service is not called for it:
\* by the ArgumentException of ShapeDataFactory when the request passes the
\* validation of its fields, by that validation when it does not (no
\* BoundsType, no bounds, a number out of range).
C20_UnknownTypeRejected ==
    IsGenerateRequest /\ Unsupported(call.request.BoundsType)
        => /\ ret.status = 400
           /\ ret.waypoints = <<>>
           /\ ~ret.serviceCalled
           /\ ModelStateIsValid(call.request) => ret.error = "ArgumentException"
           /\ ~ModelStateIsValid(call.request) => ret.error = "ValidationProblem"

\* C20 witness: a valid request for a hexagon was answered with 400 by the
\* exception of the factory.
C20_Witness ==
    /\ IsGenerateRequest
    /\ call.request.BoundsType = "hexagon"
    /\ call.request.Bounds = RectangleBounds
    /\ ModelStateIsValid(call.request)
    /\ ret.status = 400
    /\ ret.error = "ArgumentException"
    /\ ~ret.serviceCalled

(***************************************************************************)
(* The answers of the generate action                                      *)
(***************************************************************************)
IsActionCall == call.op = "WaypointsController.GenerateWaypoints (substitute)"

\* C21: when the waypoint service throws, the action answers an
\* ArgumentException (or a subclass) with 400, an InvalidOperationException
\* (or a subclass) with 422, and any other exception with 500 and the fixed
\* text "Internal server error", which is not the text of the exception; the
\* NullReferenceException of a request without BoundsType is answered in the
\* same way.
C21_ExceptionMapping ==
    IsActionCall =>
        /\ ret.serviceCalled /\ call.outcome.kind = "throw" =>
               LET e == call.outcome.exception
               IN  /\ e \in {"ArgumentException", "ArgumentNullException"}
                          => ret.status = 400 /\ ret.error = e
                   /\ e \in {"InvalidOperationException",
                             "ObjectDisposedException"}
                          => ret.status = 422 /\ ret.error = e
                   /\ e \in {"NullReferenceException", "TimeoutException"}
                          => /\ ret.status = 500
                             /\ ret.error = "Internal server error"
                             /\ ret.error # e
        /\ call.request.BoundsType = Null =>
               ret.status = 500 /\ ret.error = "Internal server error"

\* C21 witness: the service threw an exception that is neither of the two
\* caught classes and the answer was 500.
C21_Witness ==
    /\ IsActionCall
    /\ ret.serviceCalled
    /\ call.outcome = Thrown("TimeoutException")
    /\ ret.status = 500

\* C22: whenever the waypoint service returns a list for a generate request,
\* the answer is 200 with that list, same length and same order; this holds
\* of a substitute service returning any list, and of the registered service
\* behind the endpoint.
C22_ServiceListReturned ==
    /\ IsActionCall /\ ret.serviceCalled /\ call.outcome.kind = "list"
           => ret.status = 200 /\ ret.waypoints = call.outcome.waypoints
    /\ IsGenerateRequest /\ ret.serviceCalled =>
           LET made == CreateFromBoundsType(call.request.BoundsType,
                                            call.request.Bounds)
               result == WaypointService_GenerateWaypointsAsync(
                             <<made.shape>>, RequestParameters(call.request))
           IN  result.error = "none"
                   => ret.status = 200 /\ ret.waypoints = result.waypoints

\* C22 witness: a polyline request for which the service returned two
\* waypoints, the one of Index 2 first, was answered with 200.
C22_Witness ==
    /\ IsActionCall
    /\ call.request.BoundsType = Polyline
    /\ call.outcome = Returned(<<ServiceWaypoint(2), ServiceWaypoint(1)>>)
    /\ ret.serviceCalled
    /\ ret.status = 200
    /\ Len(ret.waypoints) = 2

(***************************************************************************)
(* Distances on the sphere of the circle handler.  The projection of a     *)
(* point at angular distance d / EarthRadius from a center is kept in      *)
(* polar form (Pos), so its great-circle distance from that center is d;   *)
(* from any other place the distance is bounded through the triangle       *)
(* inequality and the length of the meridian between the two latitudes.    *)
(***************************************************************************)
EarthRadius == 6378137

\* Metres in one degree of a great circle, rounded down:
\* EarthRadius * pi / 180.
MetresPerDegree == ((EarthRadius \div HalfTurn) * PiNum) \div PiDen

\* Coordinate units (1e-4 degree) in one degree.
UnitsPerDegree == 10000

\* A lower bound, in metres, of the great-circle distance between two places:
\* the meridian arc over the whole degrees between their latitudes.
MeridianArc(a, b) == (Abs(a.Lat - b.Lat) \div UnitsPerDegree) * MetresPerDegree

\* Bounds [lo, hi], in metres, of the great-circle distance from a place to
\* a projected point.
DistanceBounds(from, pos) ==
    IF pos.center = [Lat |-> from.Lat, Lng |-> from.Lng]
    THEN [lo |-> pos.dist, hi |-> pos.dist]
    ELSE [lo |-> Max(0, MeridianArc(from, pos.center) - pos.dist),
          hi |-> HalfTurn * (MetresPerDegree + 1)]

\* C23 (as claimed): for every circle the handler generates waypoints for,
\* the great-circle distance from the center of the circle it was given to
\* each returned waypoint is within 0.5 m of the declared Radius.
C23_RadiusFidelity ==
    IsCircleCall /\ ret.error = "none"
        => \A j \in 1..Len(ret.waypoints) :
              LET d == DistanceBounds(call.shape.Coordinates[1],
                                      ret.waypoints[j].Pos)
              IN  /\ 2 * d.lo >= 2 * call.shape.Radius - 1
                  /\ 2 * d.hi <= 2 * call.shape.Radius + 1

(***************************************************************************)
(* The drawing tools as the user drives them: one action per event the     *)
(* toolbar, the map and the keyboard deliver.                              *)
(***************************************************************************)
\* The event is noted on the state the handler leaves.
Handled(d, event, point) ==
    [d EXCEPT !.event = event, !.point = point, !.events = drawing.events + 1]

DrawRectangleClicked ==
    /\ drawing.events < MaxEvents
    /\ drawing' = Handled(handleDrawRectangle(drawing), "handleDrawRectangle", <<>>)
    /\ UNCHANGED <<call, ret, frames, objects, map>>

DrawCircleClicked ==
    /\ drawing.events < MaxEvents
    /\ drawing' = Handled(handleDrawCircle(drawing), "handleDrawCircle", <<>>)
    /\ UNCHANGED <<call, ret, frames, objects, map>>

DrawPolylineClicked ==
    /\ drawing.events < MaxEvents
    /\ drawing' = Handled(handleDrawPolyline(drawing), "handleDrawPolyline", <<>>)
    /\ UNCHANGED <<call, ret, frames, objects, map>>

StopDrawingClicked ==
    /\ drawing.events < MaxEvents
    /\ drawing' = Handled(handleStopDrawing(drawing), "handleStopDrawing", <<>>)
    /\ UNCHANGED <<call, ret, frames, objects, map>>

ProbeHeightClicked ==
    /\ drawing.events < MaxEvents
    /\ drawing' = Handled(handleProbeHeight(drawing), "handleProbeHeight", <<>>)
    /\ UNCHANGED <<call, ret, frames, objects, map>>

ClearProbeHeightClicked ==
    /\ drawing.events < MaxEvents
    /\ drawing' = Handled(handleClearProbeMarkers(drawing),
                          "handleClearProbeMarkers", <<>>)
    /\ UNCHANGED <<call, ret, frames, objects, map>>

MapClicked ==
    /\ drawing.events < MaxEvents
    /\ \E clickPoint \in ClickPoints, statusOk \in BOOLEAN :
           drawing' = Handled(MapInner_handleMapClick(drawing, clickPoint, statusOk),
                              "handleMapClick", <<clickPoint>>)
    /\ UNCHANGED <<call, ret, frames, objects, map>>

MouseMoved ==
    /\ drawing.events < MaxEvents
    /\ drawing' = Handled(handleMouseMove(drawing), "handleMouseMove", <<>>)
    /\ UNCHANGED <<call, ret, frames, objects, map>>

KeyPressed ==
    /\ drawing.events < MaxEvents
    /\ \E key \in {"Enter", "Escape"} :
           drawing' = Handled(handleKeyPress(drawing, key), key, <<>>)
    /\ UNCHANGED <<call, ret, frames, objects, map>>

DrawingNext ==
    \/ DrawRectangleClicked
    \/ DrawCircleClicked
    \/ DrawPolylineClicked
    \/ StopDrawingClicked
    \/ ProbeHeightClicked
    \/ ClearProbeHeightClicked
    \/ MapClicked
    \/ MouseMoved
    \/ KeyPressed

DrawingSpec == Init /\ [][DrawingNext]_vars

(***************************************************************************)
(* The markers and the flight path as the user and the server drive them.  *)
(***************************************************************************)
\* The event is noted on the state the handler leaves.
Noted(m, event) == [m EXCEPT !.event = event, !.events = map.events + 1]

\* What ShapeContext may hold when Generate is clicked: nothing drawn yet,
\* or a polyline through the two places.
DrawnBounds ==
    {<<NoBounds, InitialBoundsType>>,
     <<BoundsOf(<<NorthWest, SouthEast>>, ToFixed(<<>>)), Polyline>>}

\* The waypoints the server may answer a request with: Index counts up from
\* the StartingIndex of the request.
Responses(request) ==
    {[failed |-> TRUE, points |-> <<>>], [failed |-> FALSE, points |-> <<>>]}
    \cup {[failed |-> FALSE,
           points |-> [i \in 1..Len(places) |->
                          [Index |-> request.StartingIndex + i - 1,
                           place |-> places[i]]]] :
             places \in SeqsUpTo(Places \cup {OutOfRange}, MaxWaypoints) \ {<<>>}}

\* MapInner.handleGenerateWaypoints up to the request: without bounds it
\* alerts and returns, otherwise the request is on its way.
GenerateClicked ==
    /\ map.events < MaxMapEvents
    /\ \E drawn \in DrawnBounds :
           IF drawn[1] = NoBounds \/ drawn[2] = ""
           THEN map' = Noted([map EXCEPT !.outcome = "rejected"],
                             "handleGenerateWaypoints")
           ELSE /\ Len(map.pending) < MaxPending
                /\ map' = Noted([map EXCEPT
                                    !.outcome = "sent",
                                    !.pending = Append(map.pending,
                                        [StartingIndex |-> map.startingIndex,
                                         BoundsType |-> drawn[2]])],
                                "handleGenerateWaypoints")
    /\ UNCHANGED <<call, ret, frames, objects, drawing>>

\* The response to a request arrives.
GenerateResponded ==
    /\ map.events < MaxMapEvents
    /\ \E k \in 1..Len(map.pending) :
           \E response \in Responses(map.pending[k]) :
               map' = Noted(generateWaypointsFromAPI(
                                [map EXCEPT !.pending = Splice(map.pending, k)],
                                response),
                            "generateWaypointsFromAPI")
    /\ UNCHANGED <<call, ret, frames, objects, drawing>>

MarkerClicked ==
    /\ map.events < MaxMapEvents
    /\ \E i \in 1..Len(map.flags) :
           map' = Noted(clickMarker(map, i), "click")
    /\ UNCHANGED <<call, ret, frames, objects, drawing>>

\* The Delete button of an info window whose buttons have their handlers.
DeleteClicked ==
    /\ map.events < MaxMapEvents
    /\ map.infoWindow # <<>>
    /\ map.infoWindow[1].wired
    /\ map' = Noted(deleteWaypoint(map), "deleteWaypoint")
    /\ UNCHANGED <<call, ret, frames, objects, drawing>>

MarkerDragged ==
    /\ map.events < MaxMapEvents
    /\ \E i \in 1..Len(map.flags), place \in Places, order \in DragOrders :
           /\ place # map.flags[i].position
           /\ map' = Noted(dragMarker(map, i, place, order), "drag")
    /\ UNCHANGED <<call, ret, frames, objects, drawing>>

ClearWaypointsClicked ==
    /\ map.events < MaxMapEvents
    /\ map' = Noted(clearWaypoints(map), "clearWaypoints")
    /\ UNCHANGED <<call, ret, frames, objects, drawing>>

ClearAllClicked ==
    /\ map.events < MaxMapEvents
    /\ map' = Noted(clearAll(map), "clearAll")
    /\ UNCHANGED <<call, ret, frames, objects, drawing>>

GenerateKmlClicked ==
    /\ map.events < MaxMapEvents
    /\ map' = Noted(generateKml(map), "generateKml")
    /\ UNCHANGED <<call, ret, frames, objects, drawing>>

MapNext ==
    \/ GenerateClicked
    \/ GenerateResponded
    \/ MarkerClicked
    \/ DeleteClicked
    \/ MarkerDragged
    \/ ClearWaypointsClicked
    \/ ClearAllClicked
    \/ GenerateKmlClicked

MapSpec == Init /\ [][MapNext]_vars

(***************************************************************************)
(* Properties of the drawing tools                                         *)
(***************************************************************************)
DrawingModes == {Rectangle, Circle, Polyline}

\* C24 (as claimed): probe-height mode and a drawing mode are never active
\* at the same time, whatever toolbar actions, map clicks and key presses
\* came before.
C24_ProbeExcludesDrawing ==
    ~(drawing.isProbeHeightActive /\ drawing.activeDrawingMode \in DrawingModes)

\* The step is a map click made in rectangle or circle drawing mode.
ClickInShapeMode ==
    /\ drawing'.event = "handleMapClick"
    /\ drawing'.events = drawing.events + 1
    /\ drawing.activeDrawingMode \in {Rectangle, Circle}

\* The corner or center the mode in force waits to be completed with.
Pending(d) ==
    IF d.activeDrawingMode = Rectangle THEN d.rectangleStart ELSE d.circleCenter

\* The bounds that describe a rectangle or circle overlay.
DescribedBy(shape, bounds) ==
    IF shape.type = Rectangle
    THEN LET sw == shape.points[1]
             ne == shape.points[2]
         IN  bounds = BoundsOf(<<ne, Point(sw.lat, ne.lng), sw,
                                 Point(ne.lat, sw.lng)>>, ToFixed(<<>>))
    ELSE bounds = BoundsOf(shape.points, ToFixed(shape.radius))

\* C28 (as claimed): in rectangle or circle drawing mode the first map click
\* only records the corner or center and adds no shape; the second click
\* adds exactly one shape of the mode, sets bounds and boundsType to it, and
\* ends the mode with no pending corner and no pending center; whatever
\* drawing was abandoned, cancelled or switched away from before.
C28_TwoClicksOneShape ==
    [][ClickInShapeMode =>
          IF Pending(drawing) = <<>>
          THEN /\ Pending(drawing') = drawing'.point
               /\ drawing'.activeDrawingMode = drawing.activeDrawingMode
               /\ drawing'.shapes = drawing.shapes
               /\ drawing'.bounds = drawing.bounds
               /\ drawing'.boundsType = drawing.boundsType
          ELSE /\ Len(drawing'.shapes) = Len(drawing.shapes) + 1
               /\ SubSeq(drawing'.shapes, 1, Len(drawing.shapes)) = drawing.shapes
               /\ LET shape == drawing'.shapes[Len(drawing'.shapes)]
                  IN  /\ shape.type = drawing.activeDrawingMode
                      /\ drawing'.boundsType = shape.type
                      /\ DescribedBy(shape, drawing'.bounds)
               /\ drawing'.activeDrawingMode = Null
               /\ drawing'.rectangleStart = <<>>
               /\ drawing'.circleCenter = <<>>]_vars

\* The step stops polyline drawing: the Stop button, or Enter with two points
\* or more.
PolylineStopped ==
    /\ drawing'.events = drawing.events + 1
    /\ drawing.activeDrawingMode = Polyline
    /\ \/ drawing'.event = "handleStopDrawing"
       \/ drawing'.event = "Enter" /\ Len(drawing.drawingPoints) >= 2

\* The step cancels polyline drawing: Escape, or probe-height mode switched
\* on.
PolylineCancelled ==
    /\ drawing'.events = drawing.events + 1
    /\ drawing.activeDrawingMode = Polyline
    /\ \/ drawing'.event = "Escape"
       \/ drawing'.event = "handleProbeHeight" /\ ~drawing.isProbeHeightActive

\* C29: stopping polyline drawing with two clicked points or more adds
\* exactly one polyline shape and sets bounds to those points in click order;
\* stopping with fewer than two points, or cancelling, adds no shape and
\* leaves bounds and boundsType as they were; afterwards no drawing mode is
\* active and no clicked point is pending.
C29_PolylineStop ==
    [][/\ PolylineStopped /\ Len(drawing.drawingPoints) >= 2 =>
             /\ drawing'.shapes =
                    Append(drawing.shapes,
                           Overlay(Polyline, drawing.drawingPoints, <<>>))
             /\ drawing'.bounds.points = drawing.drawingPoints
             /\ drawing'.boundsType = Polyline
       /\ \/ PolylineStopped /\ Len(drawing.drawingPoints) < 2
          \/ PolylineCancelled
          => /\ drawing'.shapes = drawing.shapes
             /\ drawing'.bounds = drawing.bounds
             /\ drawing'.boundsType = drawing.boundsType
       /\ PolylineStopped \/ PolylineCancelled =>
             /\ drawing'.activeDrawingMode = Null
             /\ drawing'.drawingPoints = <<>>
             /\ drawing'.rectangleStart = <<>>
             /\ drawing'.circleCenter = <<>>]_vars

\* C29 witness: polyline drawing was stopped after three clicks, of which
\* the first and the last are the same place, and the polyline is on the map.
C29_Witness ==
    /\ drawing.event \in {"handleStopDrawing", "Enter"}
    /\ drawing.activeDrawingMode = Null
    /\ drawing.shapes # <<>>
    /\ LET shape == drawing.shapes[Len(drawing.shapes)]
       IN  /\ shape.type = Polyline
           /\ Len(shape.points) = 3
           /\ shape.points[1] = shape.points[3]
           /\ shape.points[1] # shape.points[2]
           /\ drawing.bounds.points = shape.points

(***************************************************************************)
(* Properties of the markers and the flight path                           *)
(***************************************************************************)
\* The step ends a waypoint generation that failed: the click was rejected
\* before anything was sent, the server answered with an error, or it
\* answered with no waypoint.
GenerationFailed ==
    /\ map'.events = map.events + 1
    /\ map'.event \in {"handleGenerateWaypoints", "generateWaypointsFromAPI"}
    /\ map'.outcome \in {"rejected", "serverError", "empty"}

\* C25: a waypoint generation that fails leaves the markers and the flight
\* path that are on the map as they were and does not advance the starting
\* index.
C25_FailedGenerationKeepsMap ==
    [][GenerationFailed =>
          /\ map'.flags = map.flags
          /\ map'.lines = map.lines
          /\ map'.startingIndex = map.startingIndex]_vars

\* C25 witness: the server answered a generation with no waypoint while
\* markers of an earlier generation and their flight path are on the map.
C25_Witness ==
    /\ map.event = "generateWaypointsFromAPI"
    /\ map.outcome = "empty"
    /\ map.flags # <<>>
    /\ map.lines # <<>>
    /\ map.startingIndex = InitialStartingIndex + 1

\* C26 (as claimed): after any sequence of generate, delete, drag,
\* clear-waypoints and clear-all operations the map holds at most one
\* flight-path polyline; its vertices are the positions of the markers, in
\* marker order; and there is none when there is no marker.
C26_FlightPathFollowsMarkers ==
    /\ Len(map.lines) <= 1
    /\ map.flags = <<>> => map.lines = <<>>
    /\ map.flags # <<>> =>
           map.lines = <<[i \in 1..Len(map.flags) |-> map.flags[i].position]>>

\* C27 (as claimed): each waypoint of the export request carries as Index
\* the id generation gave its marker.
C27_ExportIndexIsMarkerId ==
    map.event = "generateKml" /\ map.kmlRequest # <<>>
        => \A i \in 1..Len(map.flags) :
              map.kmlRequest[i].Index = map.flags[i].id

\* C27 (amended): each waypoint of the export request carries as Index its
\* position in the current list of markers, counted from 0, whatever the
\* ids of the markers are: the request has one waypoint per marker, in
\* marker order, with Index 0, 1, 2, ...
C27_ExportIndexIsPosition ==
    map.event = "generateKml" /\ map.flags # <<>>
        => /\ Len(map.kmlRequest) = Len(map.flags)
           /\ \A i \in 1..Len(map.flags) :
                 /\ map.kmlRequest[i].Index = i - 1
                 /\ map.kmlRequest[i].Latitude = map.flags[i].latlng.lat
                 /\ map.kmlRequest[i].Longitude = map.flags[i].latlng.lng

\* C27 witness: an export made when the only marker left is the second of
\* its generation, the first having been deleted.
C27_Witness ==
    /\ map.event = "generateKml"
    /\ Len(map.flags) = 1
    /\ map.flags[1].id = InitialStartingIndex + 1
    /\ Len(map.kmlRequest) = 1
    /\ map.kmlRequest[1].Index = 0

(***************************************************************************)
(* The action groups of waylines.wpml                                      *)
(***************************************************************************)
\* C30 (as claimed): in waylines.wpml every actionGroup inside a Placemark
\* has actionGroupStartIndex and actionGroupEndIndex equal to the wpml:index
\* of that Placemark.
C30_ActionGroupIndexes ==
    IsKmzRequest /\ ret.status = 200
        => LET pm == WpmlPlacemarks(ret.archive)
           IN  \A j \in 1..Len(pm) :
                  \A g \in 1..Len(pm[j].actionGroups) :
                     /\ pm[j].actionGroups[g].actionGroupStartIndex = pm[j].index
                     /\ pm[j].actionGroups[g].actionGroupEndIndex = pm[j].index

====
